---- MODULE Spec2Model ----
(***************************************************************************)
(* AdaptiveCache of sshaplygin/as-cache: an adaptive cache that serves     *)
(* every call from one active replacement policy, mirrors the traffic      *)
(* into the shadow policies, and switches the active policy at epoch       *)
(* boundaries on the advice of a bandit.                                   *)
(*                                                                         *)
(* The snapshot of cache.go under src/ (src/unnamed/part_004) holds the    *)
(* constructor, Get, Add, Remove, Purge and tryChangePolicy, but not yet   *)
(* the migration code the tests of src/unnamed/part_003 exercise           *)
(* (migrateData, clearMigrationState, drainOneKey, tryPromote and the      *)
(* fields migrating, migrateFrom, migrationKeys, migrationRealKeys).       *)
(* Those four operators are written from the specification, sections       *)
(* 4.1.1 to 4.1.3, and from src/codemaps/architecture.md; the places where *)
(* the handlers call them are the ones these documents give.               *)
(***************************************************************************)
EXTENDS Integers, Sequences, FiniteSets, TLC

\* ---------------------------------------------------------------- constants
\* PolicyType, src/models.go
Undefined == 0
LRU == 1
LFU == 2

\* MigrationStrategy, src/models.go
MigrationCold == 0
MigrationWarm == 1
MigrationGradual == 2

\* `var zeroValue V` of Add, with V = int as in the tests
ZeroValue == 0

\* ------------------------------------------------------------------- bounds
\* hit and miss counters are int64; Get is not taken once a policy has counted
\* MaxStat lookups since its counters were last reset
MaxStat == 1
\* Entry.Freq is an int; a stored key is not accessed again once its
\* frequency is MaxFreq
MaxFreq == 3

\* the policies handed to NewAdaptiveCache (makeCache: LRU first, then LFU)
Policies == {LRU, LFU}
FirstPolicy == LRU
\* sizes the policies are built with
Capacities == {1, 2}
\* the keys of the model, and the ones the callers of Spec use; the callers
\* of SpecGradual use all of them
Keys == {"a", "b", "c"}
FewKeys == {"a", "b"}
\* the sizes SpecGradual builds the policies with: the first one holds every
\* key, the other one does not
GradualSizes == [p \in Policies |-> IF p = FirstPolicy THEN Cardinality(Keys) ELSE Cardinality(Keys) - 1]
Values == {0, 1}
Strategies == {MigrationCold, MigrationWarm, MigrationGradual}
\* callers of the cache; the epoch driver is one more task
Threads == {"t1"}
NoKey == "-"

VARIABLES
    activePolicy,   \* AdaptiveCache.activePolicy
    data,           \* contents of each policy: a map from the keys it holds
    size,           \* capacity of each policy (Cap())
    stats,          \* CacheWrapper.stats of each policy
    settings,       \* AdaptiveCache.settings
    migration,      \* migrating, migrateFrom, migrationKeys, migrationRealKeys
    pc,             \* per caller: idle, or between the two phases of Get
    written,        \* history: key -> value of the last Add not followed by Remove or Purge
    last,           \* history: the call that completed last and what it returned
    cache,          \* what NewAdaptiveCache returned: no cache, or the cache
    err,            \* the error NewAdaptiveCache returned, or that it panicked
    ctx,            \* AdaptiveCache.ctx: live or cancelled
    epochTicker,    \* AdaptiveCache.epochTicker: running or stopped; C is its channel (capacity 1)
    driver,         \* the goroutine of runAdaptiveSelect
    closing,        \* callers of Close between cancel() and epochTicker.Stop()
    lfu,            \* a simplelfu.LFU used on its own: size, minFreq, items, evictList
    bandit,         \* AdaptiveCache.bandit: the reports RecordStats got in the latest tick
    seen,           \* history: the lookups each policy has counted since the previous tick
    mu,             \* AdaptiveCache.mu: who holds the lock, who waits for it
    epochID         \* AdaptiveCache.epochID

life == <<cache, err, ctx, epochTicker, driver, closing>>
vars == <<activePolicy, data, size, stats, settings, migration, pc, written, last,
          cache, err, ctx, epochTicker, driver, closing, lfu, bandit, seen, mu, epochID>>
\* what a specification that follows neither the bare LFU, nor the reports,
\* nor the lock leaves as it is
aside == <<lfu, bandit, seen, mu, epochID>>

\* ------------------------------------------------------------ map helpers
Has(d, k) == k \in DOMAIN d
Put(d, k, v) == [x \in (DOMAIN d) \cup {k} |-> IF x = k THEN v ELSE d[x]]
Drop(d, k) == [x \in (DOMAIN d) \ {k} |-> d[x]]
Restrict(d, S) == [x \in S |-> d[x]]
EmptyMap == [x \in {} |-> 0]
Min(a, b) == IF a < b THEN a ELSE b

\* all orders a snapshot of a key set can come in (Keys() has no fixed order)
Orders(S) == {q \in [1..Cardinality(S) -> S] : \A i, j \in 1..Cardinality(S) : q[i] = q[j] => i = j}

\* ------------------------------------------------ Policy (lfu.Cache, CacheWrapper)
\* Add that leaves a stored key with the value it has
AddKeepsOld(d, c, k, v, victim) ==
    IF Has(d, k) THEN [data |-> d, evicted |-> FALSE]
    ELSE IF Cardinality(DOMAIN d) >= c /\ Has(d, victim)
         THEN [data |-> Put(Drop(d, victim), k, v), evicted |-> TRUE]
         ELSE [data |-> Put(d, k, v), evicted |-> FALSE]

\* Add: overwrite in place; a new key in a full cache evicts one stored key
\* first. Which key goes is the engine's choice (simplelfu is not part of
\* this snapshot), given here as the argument victim.
PolicyAdd(d, c, k, v, victim) ==
    IF Has(d, k) THEN [data |-> Put(d, k, v), evicted |-> FALSE]
    ELSE IF Cardinality(DOMAIN d) >= c /\ Has(d, victim)
         THEN [data |-> Put(Drop(d, victim), k, v), evicted |-> TRUE]
         ELSE [data |-> Put(d, k, v), evicted |-> FALSE]

\* a victim is needed exactly when a new key meets a full cache
VictimOk(d, c, k, victim) ==
    IF ~Has(d, k) /\ Cardinality(DOMAIN d) >= c THEN Has(d, victim) ELSE victim = NoKey

\* the victims Add can be given
EvictChoices(d, c, k) == {x \in Keys \cup {NoKey} : VictimOk(d, c, k, x)}

\* Peek that finds the key and loses its value
PeekZeroValue(d, k) == [value |-> ZeroValue, ok |-> Has(d, k)]
\* Peek that never finds
PeekAlwaysMiss(d, k) == [value |-> ZeroValue, ok |-> FALSE]

PolicyPeek(d, k) == IF Has(d, k) THEN [value |-> d[k], ok |-> TRUE] ELSE [value |-> ZeroValue, ok |-> FALSE]

PolicyContains(d, k) == Has(d, k)

PolicyRemove(d, k) == [data |-> Drop(d, k), present |-> Has(d, k)]

\* Purge that leaves the items where they are
PurgeNothing(d) == d
\* Purge that resets the values and keeps the keys
PurgeValuesOnly(d) == [x \in DOMAIN d |-> ZeroValue]

PolicyPurge(d) == EmptyMap

PolicyLen(d) == Cardinality(DOMAIN d)

\* CacheWrapper.Get: the embedded Get, then one counter goes up by one
WrapperGet(d, st, k) ==
    LET r == PolicyPeek(d, k)
    IN  [value |-> r.value, ok |-> r.ok,
         stats |-> IF r.ok THEN [st EXCEPT !.Hits = @ + 1] ELSE [st EXCEPT !.Misses = @ + 1]]

NoStats == [Hits |-> 0, Misses |-> 0]

\* ------------------------------------------------------ migration state
\* a clear that empties the key list and the set and leaves the flag up
clearKeysOnly ==
    [migrating |-> TRUE, migrateFrom |-> FirstPolicy,
     migrationKeys |-> <<>>, migrationRealKeys |-> {}]

\* clearMigrationState: all four fields back to their zero values
clearMigrationState ==
    [migrating |-> FALSE, migrateFrom |-> Undefined,
     migrationKeys |-> <<>>, migrationRealKeys |-> {}]

Range(q) == {q[i] : i \in DOMAIN q}

\* the copy loop of the warm strategy: for each key of the snapshot, in
\* snapshot order, Peek it in the source and Add it to the target
RECURSIVE warmCopy(_, _, _, _, _)
warmCopy(dst, c, src, order, victims) ==
    IF order = <<>> THEN dst
    ELSE LET r == PolicyPeek(src, Head(order))
             d1 == IF r.ok THEN PolicyAdd(dst, c, Head(order), r.value, Head(victims)).data
                   ELSE dst
         IN  warmCopy(d1, c, src, Tail(order), Tail(victims))

RECURSIVE warmVictimsOk(_, _, _, _, _)
warmVictimsOk(dst, c, src, order, victims) ==
    IF order = <<>> THEN TRUE
    ELSE /\ VictimOk(dst, c, Head(order), Head(victims))
         /\ warmVictimsOk(PolicyAdd(dst, c, Head(order), src[Head(order)], Head(victims)).data,
                          c, src, Tail(order), Tail(victims))

\* a switch that only moves the pointer
migrateNothing(D, sz, strategy, from, to, order, victims) ==
    [data |-> D, migration |-> clearMigrationState]

\* a switch that starts the lazy drain whatever the strategy is
migrateAlwaysLazy(D, sz, strategy, from, to, order, victims) ==
    [data |-> [D EXCEPT ![to] = PolicyPurge(D[to])],
     migration |-> [migrating |-> TRUE, migrateFrom |-> from,
                    migrationKeys |-> order, migrationRealKeys |-> Range(order)]]

\* a gradual switch that leaves the incoming policy as it is
migrateKeepsTarget(D, sz, strategy, from, to, order, victims) ==
    LET purged == [D EXCEPT ![to] = PolicyPurge(D[to])]
    IN  IF strategy = MigrationWarm
        THEN [data |-> [purged EXCEPT ![to] = warmCopy(purged[to], sz[to], D[from], order, victims)],
              migration |-> clearMigrationState]
        ELSE IF strategy = MigrationGradual
        THEN [data |-> D,
              migration |-> [migrating |-> TRUE, migrateFrom |-> from,
                             migrationKeys |-> order, migrationRealKeys |-> Range(order)]]
        ELSE [data |-> purged, migration |-> clearMigrationState]

\* migrateData(from, to): the target is purged under every strategy, so the
\* zero values it collected as a shadow go; then nothing (cold), a full copy
\* (warm), or the bookkeeping of a lazy drain (gradual). order is the
\* snapshot from.Keys().
migrateData(D, sz, strategy, from, to, order, victims) ==
    LET purged == [D EXCEPT ![to] = PolicyPurge(D[to])]
    IN  IF strategy = MigrationWarm
        THEN [data |-> [purged EXCEPT ![to] = warmCopy(purged[to], sz[to], D[from], order, victims)],
              migration |-> clearMigrationState]
        ELSE IF strategy = MigrationGradual
        THEN [data |-> purged,
              migration |-> [migrating |-> TRUE, migrateFrom |-> from,
                             migrationKeys |-> order, migrationRealKeys |-> Range(order)]]
        ELSE [data |-> purged, migration |-> clearMigrationState]

\* a pop that hands out no key
popNothing(keys, real) == [keys |-> keys, got |-> {}]

\* a pop that gives up at the first key that is no longer eligible
popTailOnly(keys, real) ==
    IF keys = <<>> THEN [keys |-> <<>>, got |-> {}]
    ELSE LET n == Len(keys)
         IN  IF keys[n] \in real THEN [keys |-> SubSeq(keys, 1, n - 1), got |-> {keys[n]}]
             ELSE [keys |-> <<>>, got |-> {}]

\* pop from the tail of migrationKeys until a key that is still eligible
\* comes up; keys that are not are dropped on the way
RECURSIVE popEligible(_, _)
popEligible(keys, real) ==
    IF keys = <<>> THEN [keys |-> <<>>, got |-> {}]
    ELSE LET n == Len(keys)
         IN  IF keys[n] \in real THEN [keys |-> SubSeq(keys, 1, n - 1), got |-> {keys[n]}]
             ELSE popEligible(SubSeq(keys, 1, n - 1), real)

\* a drain loop that does not stop at the first key it moves
drainEveryKey(D, sz, active, m, victim) ==
    LET from == m.migrateFrom
        moved == {y \in m.migrationRealKeys : Has(D[from], y)}
    IN  [data |-> [D EXCEPT ![active] =
                      [x \in DOMAIN D[active] \cup moved |->
                          IF Has(D[active], x) THEN D[active][x] ELSE D[from][x]]],
         migration |-> clearMigrationState]

\* a drain step that leaves the window open when the last eligible key goes
drainNeverCloses(D, sz, active, m, victim) ==
    LET p == popEligible(m.migrationKeys, m.migrationRealKeys)
    IN  [data |-> D,
         migration |-> [m EXCEPT !.migrationKeys = p.keys,
                                 !.migrationRealKeys = @ \ p.got]]

\* drainOneKey: move one still-eligible key from the source into the active
\* policy; when no eligible key is left the window closes
drainOneKey(D, sz, active, m, victim) ==
    LET p == popEligible(m.migrationKeys, m.migrationRealKeys)
        real == m.migrationRealKeys \ p.got
        D1 == IF p.got = {} THEN D
              ELSE LET k == CHOOSE x \in p.got : TRUE
                       r == PolicyPeek(D[m.migrateFrom], k)
                   IN  IF r.ok
                       THEN [D EXCEPT ![active] = PolicyAdd(D[active], sz[active], k, r.value, victim).data]
                       ELSE D
        m1 == [m EXCEPT !.migrationKeys = p.keys, !.migrationRealKeys = real]
    IN  [data |-> D1, migration |-> IF real = {} THEN clearMigrationState ELSE m1]

\* the key drainOneKey would insert into the active policy, if any
drainTarget(D, m) ==
    LET p == popEligible(m.migrationKeys, m.migrationRealKeys)
    IN  {k \in p.got : Has(D[m.migrateFrom], k)}

\* tryPromote that does not look at the eligible set again
tryPromoteStale(D, sz, active, m, k, victim) ==
    IF ~m.migrating
    THEN [data |-> D, migration |-> m, value |-> ZeroValue, ok |-> FALSE]
    ELSE LET r == PolicyPeek(D[m.migrateFrom], k)
             m1 == [m EXCEPT !.migrationRealKeys = @ \ {k}]
         IN  IF r.ok
             THEN [data |-> [D EXCEPT ![active] = PolicyAdd(D[active], sz[active], k, r.value, victim).data],
                   migration |-> m1, value |-> r.value, ok |-> TRUE]
             ELSE [data |-> D, migration |-> m1, value |-> ZeroValue, ok |-> FALSE]

\* tryPromote(key), under the exclusive lock: both the flag and the
\* eligibility of key are looked at again
tryPromote(D, sz, active, m, k, victim) ==
    IF ~m.migrating \/ k \notin m.migrationRealKeys
    THEN [data |-> D, migration |-> m, value |-> ZeroValue, ok |-> FALSE]
    ELSE LET r == PolicyPeek(D[m.migrateFrom], k)
             m1 == [m EXCEPT !.migrationRealKeys = @ \ {k}]
         IN  IF r.ok
             THEN [data |-> [D EXCEPT ![active] = PolicyAdd(D[active], sz[active], k, r.value, victim).data],
                   migration |-> m1, value |-> r.value, ok |-> TRUE]
             ELSE [data |-> D, migration |-> m1, value |-> ZeroValue, ok |-> FALSE]

\* ------------------------------------------------------- AdaptiveCache
Victims == Keys \cup {NoKey}
Idle == [st |-> "idle", key |-> NoKey]
Result(op, k, v, ok, from) ==
    [op |-> op, key |-> k, value |-> v, ok |-> ok, from |-> from]

\* simplelfu.NewLFU(size, nil) for a positive size: no items, no frequency
\* list, minFreq at its zero value
NewLFU(n) == [size |-> n, minFreq |-> 0, items |-> EmptyMap, evictList |-> EmptyMap]
\* the specifications of the adaptive cache leave the bare LFU alone
SpareLFU == NewLFU(1)
\* sync.RWMutex at its zero value: nobody holds it, nobody waits
Unlocked == [holdW |-> {}, holdR |-> {}, waitW |-> {}, waitR |-> {}]
\* no report made, no lookup counted, the lock free, no epoch counted
Quiet ==
    /\ bandit = <<>>
    /\ seen = [p \in Policies |-> NoStats]
    /\ mu = Unlocked
    /\ epochID = 0

\* what NewAdaptiveCache leaves behind when it returns a cache: context live,
\* ticker running with no tick in its channel, driver goroutine started
Built ==
    /\ cache = "built"
    /\ err = "nil"
    /\ ctx = "live"
    /\ epochTicker = [running |-> TRUE, C |-> 0]
    /\ driver = "running"
    /\ closing = {}

\* NewAdaptiveCache with a non-empty policy list: the first policy is active
Init ==
    /\ Built
    /\ lfu = SpareLFU
    /\ Quiet
    /\ activePolicy = FirstPolicy
    /\ data = [p \in Policies |-> EmptyMap]
    /\ size \in [Policies -> Capacities]
    /\ stats = [p \in Policies |-> NoStats]
    /\ settings \in [EvictPartialCapacityFilling : BOOLEAN, MigrationStrategy : Strategies]
    /\ migration = clearMigrationState
    /\ pc = [t \in Threads |-> Idle]
    /\ written = EmptyMap
    /\ last = [op |-> "new", key |-> NoKey, value |-> ZeroValue, ok |-> FALSE, from |-> Undefined]

\* Add without the loop over the non-active policies
shadowAddSkipped(D, sz, active, k, vic) == D

\* the loop of Add over the non-active policies: each gets (key, zero value)
shadowAdd(D, sz, active, k, vic) ==
    [p \in Policies |->
        IF p = active THEN D[p] ELSE PolicyAdd(D[p], sz[p], k, ZeroValue, vic[p]).data]

\* the bookkeeping of Add without taking key out of the eligible set
addMigrateKeepsKey(D, sz, active, m, k, victim) ==
    IF m.migrating
    THEN drainOneKey(D, sz, active, m, victim)
    ELSE [data |-> D, migration |-> m]

\* the gradual bookkeeping of Add: key is no longer eligible (its entry in
\* the source has just been overwritten), then one other key is drained
addMigrate(D, sz, active, m, k, victim) ==
    IF m.migrating
    THEN drainOneKey(D, sz, active, [m EXCEPT !.migrationRealKeys = @ \ {k}], victim)
    ELSE [data |-> D, migration |-> m]

\* an active add that reports an eviction whenever the active policy is full
activeAddReportsFull(D, sz, active, k, v, victim) ==
    [data |-> PolicyAdd(D[active], sz[active], k, v, victim).data,
     evicted |-> PolicyLen(D[active]) >= sz[active]]

\* the last line of Add: the active policy gets (key, value)
activeAdd(D, sz, active, k, v, victim) == PolicyAdd(D[active], sz[active], k, v, victim)

\* the victims the non-active policies can be given by one Add of k
ShadowVictims(D, sz, active, k) ==
    LET shadows == Policies \ {active}
    IN  {[p \in Policies |-> IF p = active THEN NoKey ELSE f[p]] :
            f \in {g \in [shadows -> Victims] :
                      \A p \in shadows : VictimOk(D[p], sz[p], k, g[p])}}

\* the victims the drain step of one Add can be given
DrainVictims(D, sz, active, tgt) ==
    IF tgt = {} THEN {NoKey}
    ELSE {vd \in Victims : \A x \in tgt : VictimOk(D[active], sz[active], x, vd)}

\* c.policies[c.activePolicy] when activePolicy is not a key of the map: the
\* entry is the nil interface and the method call on it panics
nilPolicy(active) == active \notin Policies
Panic(k) == Result("panic", k, ZeroValue, FALSE, Undefined)

\* Add. With no entry for activePolicy the loop skips no policy, and the last
\* line panics.
Add(t, k, v) ==
    /\ cache = "built"
    /\ pc[t].st = "idle"
    /\ \E vic \in ShadowVictims(data, size, activePolicy, k) :
          LET D1 == shadowAdd(data, size, activePolicy, k, vic)
          IN  IF nilPolicy(activePolicy)
              THEN /\ data' = D1
                   /\ last' = Panic(k)
                   /\ UNCHANGED <<migration, written>>
              ELSE LET m0 == [migration EXCEPT !.migrationRealKeys = @ \ {k}]
                       tgt == IF migration.migrating THEN drainTarget(D1, m0) ELSE {}
                   IN  \E vd \in DrainVictims(D1, size, activePolicy, tgt) :
                         LET dr == addMigrate(D1, size, activePolicy, migration, k, vd)
                         IN  \E va \in EvictChoices(dr.data[activePolicy], size[activePolicy], k) :
                               LET r == activeAdd(dr.data, size, activePolicy, k, v, va)
                               IN  /\ data' = [dr.data EXCEPT ![activePolicy] = r.data]
                                   /\ migration' = dr.migration
                                   /\ last' = Result("add", k, ZeroValue, r.evicted, Undefined)
                                   /\ written' = Put(written, k, v)
    /\ UNCHANGED <<activePolicy, size, stats, settings, pc>>
    /\ UNCHANGED life

\* Get without the loop over the non-active policies
shadowGetSkipped(D, S, active, k) == S

\* Get that answers from a non-active policy
activeGetFromShadow(D, S, active, k) ==
    LET p == IF Policies = {active} THEN active ELSE CHOOSE x \in Policies : x # active
        r == WrapperGet(D[p], S[active], k)
    IN  [value |-> r.value, ok |-> r.ok, stats |-> r.stats]

\* the loop of Get over the non-active policies: each is asked for key
shadowGet(D, S, active, k) ==
    [p \in Policies |-> IF p = active THEN S[p] ELSE WrapperGet(D[p], S[p], k).stats]

\* the read of Get that the caller sees: Get on the active policy
activeGet(D, S, active, k) == WrapperGet(D[active], S[active], k)

\* Get, under the shared lock: shadows first, then the active policy. A miss
\* while a gradual migration is on goes on to tryPromote, after the shared
\* lock has been released.
Get(t, k) ==
    /\ cache = "built"
    /\ pc[t].st = "idle"
    /\ IF nilPolicy(activePolicy)
       THEN LET S1 == shadowGet(data, stats, activePolicy, k)
            IN  /\ \A p \in Policies : S1[p].Hits + S1[p].Misses <= MaxStat
                /\ stats' = S1
                /\ pc' = pc
                /\ last' = Panic(k)
       ELSE
       LET r == activeGet(data, stats, activePolicy, k)
           S1 == [shadowGet(data, stats, activePolicy, k) EXCEPT ![activePolicy] = r.stats]
       IN  /\ \A p \in Policies : S1[p].Hits + S1[p].Misses <= MaxStat
           /\ stats' = S1
           /\ IF ~r.ok /\ migration.migrating
              THEN /\ pc' = [pc EXCEPT ![t] = [st |-> "promote", key |-> k]]
                   /\ last' = last
              ELSE /\ pc' = pc
                   /\ last' = Result("get", k, r.value, r.ok, Undefined)
    /\ UNCHANGED <<activePolicy, data, size, settings, migration, written>>
    /\ UNCHANGED life

\* the second phase of Get, under the exclusive lock
GetPromote(t) ==
    /\ cache = "built"
    /\ pc[t].st = "promote"
    /\ IF nilPolicy(activePolicy)
       THEN LET r == tryPromote(data, size, activePolicy, migration, pc[t].key, NoKey)
            IN  /\ data' = r.data
                /\ migration' = r.migration
                /\ last' = Result("get", pc[t].key, r.value, r.ok, Undefined)
       ELSE
       \E victim \in EvictChoices(data[activePolicy], size[activePolicy], pc[t].key) :
       LET k == pc[t].key
           r == tryPromote(data, size, activePolicy, migration, k, victim)
       IN  /\ data' = r.data
           /\ migration' = r.migration
           /\ last' = Result("get", k, r.value, r.ok, Undefined)
    /\ pc' = [pc EXCEPT ![t] = Idle]
    /\ UNCHANGED <<activePolicy, size, stats, settings, written>>
    /\ UNCHANGED life

\* Remove without the loop over the non-active policies
shadowRemoveSkipped(D, active, k) == D

\* the loop of Remove over the non-active policies
shadowRemove(D, active, k) ==
    [p \in Policies |-> IF p = active THEN D[p] ELSE PolicyRemove(D[p], k).data]

Remove(t, k) ==
    /\ cache = "built"
    /\ pc[t].st = "idle"
    /\ LET D1 == shadowRemove(data, activePolicy, k)
       IN  IF nilPolicy(activePolicy)
           THEN /\ data' = D1
                /\ last' = Panic(k)
                /\ UNCHANGED <<migration, written>>
           ELSE LET r == PolicyRemove(D1[activePolicy], k)
                IN  /\ data' = [D1 EXCEPT ![activePolicy] = r.data]
                    /\ last' = Result("remove", k, ZeroValue, r.present, Undefined)
                    /\ migration' = IF migration.migrating
                                    THEN [migration EXCEPT !.migrationRealKeys = @ \ {k}]
                                    ELSE migration
                    /\ written' = Drop(written, k)
    /\ UNCHANGED <<activePolicy, size, stats, settings, pc>>
    /\ UNCHANGED life

\* Purge of the first policy only
purgeFirstOnly(D) == [p \in Policies |-> IF p = FirstPolicy THEN PolicyPurge(D[p]) ELSE D[p]]

\* the loop of Purge over all policies
purgeAll(D) == [p \in Policies |-> PolicyPurge(D[p])]

Purge(t) ==
    /\ cache = "built"
    /\ pc[t].st = "idle"
    /\ data' = purgeAll(data)
    /\ migration' = clearMigrationState
    /\ written' = EmptyMap
    /\ last' = Result("purge", NoKey, ZeroValue, FALSE, Undefined)
    /\ UNCHANGED <<activePolicy, size, stats, settings, pc>>
    /\ UNCHANGED life

\* a gate that lets every tick through
gateAlwaysOpen(D, sz, cfg, cur) == FALSE

\* the capacity gate of tryChangePolicy
gateClosed(D, sz, cfg, cur) ==
    ~cfg.EvictPartialCapacityFilling /\ PolicyLen(D[cur]) # sz[cur]

\* a loop that resets the counters of every policy, the active one too
collectAll(S, cur) == [p \in Policies |-> NoStats]

\* the loop of tryChangePolicy over the non-active policies: GetStats,
\* ResetStats, RecordStats
collectStats(S, cur) == [p \in Policies |-> IF p = cur THEN S[p] ELSE NoStats]

\* the snapshots and victim choices a switch can meet: the key order of
\* from.Keys() matters to warm and gradual, victims only to a warm copy
Snapshots(D, sz, strategy, from, to) ==
    IF strategy = MigrationCold THEN {[order |-> <<>>, victims |-> <<>>]}
    ELSE IF strategy = MigrationGradual
    THEN {[order |-> o, victims |-> [i \in 1..Len(o) |-> NoKey]] : o \in Orders(DOMAIN D[from])}
    ELSE UNION {
           {[order |-> o, victims |-> vs] :
               vs \in {x \in [1..Len(o) -> Victims] : warmVictimsOk(EmptyMap, sz[to], D[from], o, x)}} :
           o \in Orders(DOMAIN D[from])}

\* one epoch tick. newPolicy is what bandit.SelectPolicy() returns. A
\* gradual migration still in progress is given up first. newPolicy is
\* compared with the current policy only: one that is not a key of the policy
\* map becomes the active policy all the same, and there is no policy to
\* migrate to or from.
tryChangePolicy(newPolicy) ==
    LET cur == activePolicy
    IN  /\ IF nilPolicy(cur) /\ ~settings.EvictPartialCapacityFilling
           THEN /\ newPolicy = cur
                /\ migration' = clearMigrationState
                /\ last' = Panic(NoKey)
                /\ UNCHANGED <<activePolicy, data, stats>>
           ELSE IF ~nilPolicy(cur) /\ gateClosed(data, size, settings, cur)
           THEN /\ newPolicy = cur
                /\ migration' = clearMigrationState
                /\ last' = Result("tick", NoKey, ZeroValue, FALSE, cur)
                /\ UNCHANGED <<activePolicy, data, stats>>
           ELSE /\ stats' = collectStats(stats, cur)
                /\ IF newPolicy # cur /\ (nilPolicy(newPolicy) \/ nilPolicy(cur))
                   THEN /\ activePolicy' = newPolicy
                        /\ migration' = clearMigrationState
                        /\ last' = Result("tick", NoKey, ZeroValue, TRUE, cur)
                        /\ data' = data
                   ELSE IF newPolicy # cur
                   THEN \E s \in Snapshots(data, size, settings.MigrationStrategy, cur, newPolicy) :
                          LET r == migrateData(data, size, settings.MigrationStrategy,
                                               cur, newPolicy, s.order, s.victims)
                          IN  /\ data' = r.data
                              /\ migration' = r.migration
                              /\ activePolicy' = newPolicy
                              /\ last' = Result("tick", NoKey, ZeroValue, TRUE, cur)
                   ELSE /\ migration' = clearMigrationState
                        /\ last' = Result("tick", NoKey, ZeroValue, FALSE, cur)
                        /\ UNCHANGED <<activePolicy, data>>
        /\ UNCHANGED <<size, settings, pc, written>>

Next ==
    \/ \E t \in Threads, k \in FewKeys, v \in Values : Add(t, k, v) /\ UNCHANGED aside
    \/ \E t \in Threads, k \in FewKeys : Get(t, k) /\ UNCHANGED aside
    \/ \E t \in Threads : GetPromote(t) /\ UNCHANGED aside
    \/ \E t \in Threads, k \in FewKeys : Remove(t, k) /\ UNCHANGED aside
    \/ \E t \in Threads : Purge(t) /\ UNCHANGED aside
    \/ \E newPolicy \in Policies : tryChangePolicy(newPolicy) /\ UNCHANGED <<life, aside>>

Spec == Init /\ [][Next]_vars

\* The cache configured for gradual migration, used with three keys, so that
\* a migration window outlives an Add: one Add takes two keys out of the
\* eligible set, its own and the one it drains.
InitGradual ==
    /\ Built
    /\ lfu = SpareLFU
    /\ Quiet
    /\ activePolicy = FirstPolicy
    /\ data = [p \in Policies |-> EmptyMap]
    /\ size = GradualSizes
    /\ stats = [p \in Policies |-> NoStats]
    /\ settings = [EvictPartialCapacityFilling |-> TRUE, MigrationStrategy |-> MigrationGradual]
    /\ migration = clearMigrationState
    /\ pc = [t \in Threads |-> Idle]
    /\ written = EmptyMap
    /\ last = [op |-> "new", key |-> NoKey, value |-> ZeroValue, ok |-> FALSE, from |-> Undefined]

NextGradual ==
    \/ \E t \in Threads, k \in Keys, v \in Values : Add(t, k, v) /\ UNCHANGED aside
    \/ \E t \in Threads, k \in Keys : Get(t, k) /\ UNCHANGED aside
    \/ \E t \in Threads : GetPromote(t) /\ UNCHANGED aside
    \/ \E t \in Threads, k \in Keys : Remove(t, k) /\ UNCHANGED aside
    \/ \E t \in Threads : Purge(t) /\ UNCHANGED aside
    \/ \E newPolicy \in Policies : tryChangePolicy(newPolicy) /\ UNCHANGED <<life, aside>>

SpecGradual == InitGradual /\ [][NextGradual]_vars

\* The cache with a bandit that is free to return any PolicyType
PolicyTypes == Policies \cup {Undefined}

NextBandit ==
    \/ \E t \in Threads, k \in FewKeys, v \in Values : Add(t, k, v) /\ UNCHANGED aside
    \/ \E t \in Threads, k \in FewKeys : Get(t, k) /\ UNCHANGED aside
    \/ \E t \in Threads, k \in FewKeys : Remove(t, k) /\ UNCHANGED aside
    \/ \E t \in Threads : Purge(t) /\ UNCHANGED aside
    \/ \E newPolicy \in PolicyTypes : tryChangePolicy(newPolicy) /\ UNCHANGED <<life, aside>>

\* which migration strategy is configured makes no difference to what an
\* unregistered PolicyType does; under the cold one no Get has a second phase
InitBandit == Init /\ settings.MigrationStrategy = MigrationCold

SpecBandit == InitBandit /\ [][NextBandit]_vars

\* ------------------------------------------- construction, driver, Close
\* the policy lists NewAdaptiveCache is given; a nil slice has length 0 like
\* the empty one
PolicyLists == {<<>>, <<LRU, LFU>>, <<LFU, LRU>>}
\* settings.EpochDuration: time.NewTicker panics on a non-positive one
Durations == {0, 1}
Closers == {"c1", "c2"}
LifeCapacities == [p \in Policies |-> 1]
OneKey == {"a"}

\* NewAdaptiveCache without its length check
emptyPoliciesNever(ps) == FALSE

\* the check NewAdaptiveCache starts with
emptyPolicies(ps) == Len(ps) = 0

\* the last policy of the list as the active one
lastPolicy(ps) == ps[Len(ps)]

\* activePolicy of the new cache: policies[0].GetType()
firstPolicy(ps) == ps[1]

\* NewAdaptiveCache(policies, bandit, settings). Nothing is created before
\* the length check. Past it, policies[0] of an empty slice and NewTicker of
\* a non-positive duration panic before the goroutine is started.
NewAdaptiveCache(ps, dur) ==
    /\ cache = "none"
    /\ IF emptyPolicies(ps)
       THEN /\ err' = "ErrEmptyPolicies"
            /\ UNCHANGED <<cache, ctx, epochTicker, driver, activePolicy, last>>
       ELSE IF ps = <<>> \/ dur <= 0
       THEN /\ err' = "panic"
            /\ ctx' = "live"
            /\ UNCHANGED <<cache, epochTicker, driver, activePolicy, last>>
       ELSE /\ cache' = "built"
            /\ err' = "nil"
            /\ ctx' = "live"
            /\ epochTicker' = [running |-> TRUE, C |-> 0]
            /\ driver' = "running"
            /\ activePolicy' = firstPolicy(ps)
            /\ last' = Result("new", NoKey, ZeroValue, FALSE, Undefined)
    /\ UNCHANGED <<data, size, stats, settings, migration, pc, written, closing>>

\* the runtime sends a tick when the period is over; a tick that finds the
\* channel full is dropped
tickerFire ==
    /\ epochTicker.running
    /\ epochTicker.C = 0
    /\ epochTicker' = [epochTicker EXCEPT !.C = 1]
    /\ UNCHANGED <<activePolicy, data, size, stats, settings, migration, pc, written, last,
                   cache, err, ctx, driver, closing>>

\* a select without the Done case
selectWithoutDone(newPolicy) ==
    /\ driver = "running"
    /\ epochTicker.C = 1
    /\ epochTicker' = [epochTicker EXCEPT !.C = 0]
    /\ tryChangePolicy(newPolicy)
    /\ UNCHANGED <<cache, err, ctx, driver, closing>>

\* one round of the select of runAdaptiveSelect: either case that is ready
\* can be taken
runAdaptiveSelect(newPolicy) ==
    /\ driver = "running"
    /\ \/ /\ ctx = "cancelled"
          /\ newPolicy = activePolicy
          /\ epochTicker' = [epochTicker EXCEPT !.running = FALSE]
          /\ driver' = "exited"
          /\ UNCHANGED <<activePolicy, data, size, stats, settings, migration, pc, written, last,
                         cache, err, ctx, closing>>
       \/ /\ epochTicker.C = 1
          /\ epochTicker' = [epochTicker EXCEPT !.C = 0]
          /\ tryChangePolicy(newPolicy)
          /\ UNCHANGED <<cache, err, ctx, driver, closing>>

\* cancel of an already cancelled context panics
cancelOnce(cx) == IF cx = "cancelled" THEN "panic" ELSE "cancelled"

\* c.cancel(): the CancelFunc of context.WithCancel
cancel(cx) == "cancelled"

\* Close, first statement: c.cancel()
Close(c) ==
    /\ cache = "built"
    /\ c \notin closing
    /\ ctx \in {"live", "cancelled"}
    /\ ctx' = cancel(ctx)
    /\ closing' = closing \cup {c}
    /\ UNCHANGED <<activePolicy, data, size, stats, settings, migration, pc, written, last,
                   cache, err, epochTicker, driver>>

\* Close, the rest: c.epochTicker.Stop(); return nil
CloseReturn(c) ==
    /\ c \in closing
    /\ epochTicker' = [epochTicker EXCEPT !.running = FALSE]
    /\ closing' = closing \ {c}
    /\ last' = Result("close", NoKey, ZeroValue, TRUE, Undefined)
    /\ UNCHANGED <<activePolicy, data, size, stats, settings, migration, pc, written,
                   cache, err, ctx, driver>>

\* before NewAdaptiveCache: the caller has made the policies and the settings
InitLife ==
    /\ activePolicy = Undefined
    /\ data = [p \in Policies |-> EmptyMap]
    /\ size = LifeCapacities
    /\ stats = [p \in Policies |-> NoStats]
    /\ settings \in [EvictPartialCapacityFilling : BOOLEAN, MigrationStrategy : Strategies]
    /\ migration = clearMigrationState
    /\ pc = [t \in Threads |-> Idle]
    /\ written = EmptyMap
    /\ last = Result("none", NoKey, ZeroValue, FALSE, Undefined)
    /\ cache = "none"
    /\ err = "none"
    /\ ctx = "none"
    /\ epochTicker = [running |-> FALSE, C |-> 0]
    /\ driver = "none"
    /\ closing = {}
    /\ lfu = SpareLFU
    /\ Quiet

NextLife ==
    \/ \E ps \in PolicyLists, dur \in Durations : NewAdaptiveCache(ps, dur) /\ UNCHANGED aside
    \/ tickerFire /\ UNCHANGED aside
    \/ \E newPolicy \in Policies : runAdaptiveSelect(newPolicy) /\ UNCHANGED aside
    \/ \E c \in Closers : Close(c) /\ UNCHANGED aside
    \/ \E c \in Closers : CloseReturn(c) /\ UNCHANGED aside
    \/ \E t \in Threads, k \in OneKey, v \in Values : Add(t, k, v) /\ UNCHANGED aside
    \/ \E t \in Threads, k \in OneKey : Get(t, k) /\ UNCHANGED aside
    \/ \E t \in Threads : GetPromote(t) /\ UNCHANGED aside
    \/ \E t \in Threads, k \in OneKey : Remove(t, k) /\ UNCHANGED aside
    \/ \E t \in Threads : Purge(t) /\ UNCHANGED aside

SpecLife == InitLife /\ [][NextLife]_vars

\* ------------------------------------------------------ read-only calls
\* Keys() of a policy, without the order
PolicyKeys(d) == DOMAIN d

\* Values() of a policy, without the order: how often each value is held
PolicyValues(d) == [v \in Values |-> Cardinality({k \in DOMAIN d : d[k] = v})]

\* a Peek that asks the first of the other policies
peekFromShadow(D, active, k) ==
    PolicyPeek(D[IF Policies = {active} THEN active ELSE CHOOSE x \in Policies : x # active], k)

\* the one statement of Peek: c.policies[c.activePolicy].Peek(key)
activePeek(D, active, k) == PolicyPeek(D[active], k)

\* what a read-only call leaves alone: everything but the record of the call
ReadOnly ==
    /\ UNCHANGED <<activePolicy, data, size, stats, settings, migration, pc, written>>
    /\ UNCHANGED life

Peek(t, k) ==
    /\ cache = "built" /\ pc[t].st = "idle"
    /\ LET r == activePeek(data, activePolicy, k)
       IN  last' = Result("peek", k, r.value, r.ok, Undefined)
    /\ ReadOnly

Contains(t, k) ==
    /\ cache = "built" /\ pc[t].st = "idle"
    /\ last' = Result("contains", k, ZeroValue, PolicyContains(data[activePolicy], k), Undefined)
    /\ ReadOnly

CacheKeys(t) ==
    /\ cache = "built" /\ pc[t].st = "idle"
    /\ last' = [op |-> "keys", key |-> NoKey, value |-> ZeroValue, ok |-> TRUE, from |-> Undefined,
                keys |-> PolicyKeys(data[activePolicy])]
    /\ ReadOnly

CacheValues(t) ==
    /\ cache = "built" /\ pc[t].st = "idle"
    /\ last' = [op |-> "values", key |-> NoKey, value |-> ZeroValue, ok |-> TRUE, from |-> Undefined,
                values |-> PolicyValues(data[activePolicy])]
    /\ ReadOnly

CacheLen(t) ==
    /\ cache = "built" /\ pc[t].st = "idle"
    /\ last' = Result("len", NoKey, PolicyLen(data[activePolicy]), TRUE, Undefined)
    /\ ReadOnly

\* The cache under gradual migration with the read-only calls among the
\* other operations
InitReads ==
    /\ Init
    /\ settings = [EvictPartialCapacityFilling |-> TRUE, MigrationStrategy |-> MigrationGradual]

NextReads ==
    \/ \E t \in Threads, k \in FewKeys, v \in Values : Add(t, k, v) /\ UNCHANGED aside
    \/ \E t \in Threads, k \in FewKeys : Get(t, k) /\ UNCHANGED aside
    \/ \E t \in Threads : GetPromote(t) /\ UNCHANGED aside
    \/ \E t \in Threads, k \in FewKeys : Remove(t, k) /\ UNCHANGED aside
    \/ \E t \in Threads : Purge(t) /\ UNCHANGED aside
    \/ \E newPolicy \in Policies : tryChangePolicy(newPolicy) /\ UNCHANGED <<life, aside>>
    \/ \E t \in Threads, k \in FewKeys : Peek(t, k) /\ UNCHANGED aside
    \/ \E t \in Threads, k \in FewKeys : Contains(t, k) /\ UNCHANGED aside
    \/ \E t \in Threads : CacheKeys(t) /\ UNCHANGED aside
    \/ \E t \in Threads : CacheValues(t) /\ UNCHANGED aside
    \/ \E t \in Threads : CacheLen(t) /\ UNCHANGED aside

SpecReads == InitReads /\ [][NextReads]_vars

\* ------------------------------------------------------ concurrent Gets
\* Get holds the guard of the cache in shared mode, so two Gets can be inside
\* it together. Each policy has a lock of its own around its contents, but
\* CacheWrapper.Get raises its counter (c.stats.Hits++, c.stats.Misses++)
\* outside of it: a read and a write of the counter, which two Gets can
\* interleave. A Get is two steps here, GetLoad and GetStore; the writers
\* wait until no Get is between the two.
Racers == {"t1", "t2"}
RaceCapacities == [p \in Policies |-> 1]

\* no Get holds the guard
NoReader == \A u \in DOMAIN pc : pc[u].st # "counting"
InFlight == Cardinality({u \in DOMAIN pc : pc[u].st = "counting"})

\* Stats: the counters of the active policy
Stats(t) ==
    /\ cache = "built" /\ pc[t].st = "idle"
    /\ last' = [op |-> "stats", key |-> NoKey, value |-> ZeroValue, ok |-> TRUE, from |-> Undefined,
                hits |-> stats[activePolicy].Hits, misses |-> stats[activePolicy].Misses]
    /\ ReadOnly

\* Get takes the shared lock; the counters as the wrappers read them
GetLoad(t, k) ==
    /\ cache = "built" /\ pc[t].st = "idle"
    /\ \A p \in Policies : stats[p].Hits + stats[p].Misses + InFlight <= MaxStat
    /\ pc' = [pc EXCEPT ![t] = [st |-> "counting", key |-> k, seen |-> stats]]
    /\ UNCHANGED <<activePolicy, data, size, stats, settings, migration, written, last>>
    /\ UNCHANGED life

\* the counters after one Get: from[p] is the value the wrapper of p read
counted(D, from, active, k) ==
    [shadowGet(D, from, active, k) EXCEPT ![active] = activeGet(D, from, active, k).stats]

\* the wrappers write the counters back and Get returns. For each policy the
\* wrapper has read its counter either before or after the other Get wrote
\* it.
GetStore(t) ==
    /\ pc[t].st = "counting"
    /\ LET k == pc[t].key
           r == activeGet(data, stats, activePolicy, k)
           stale == counted(data, pc[t].seen, activePolicy, k)
           fresh == counted(data, stats, activePolicy, k)
       IN  /\ stats' \in {S \in [Policies -> {stale[p] : p \in Policies} \cup {fresh[p] : p \in Policies}] :
                              \A p \in Policies : S[p] \in {stale[p], fresh[p]}}
           /\ last' = Result("get", k, r.value, r.ok, Undefined)
    /\ pc' = [pc EXCEPT ![t] = Idle]
    /\ UNCHANGED <<activePolicy, data, size, settings, migration, written>>
    /\ UNCHANGED life

\* a cold cache with two callers
InitRace ==
    /\ Built
    /\ lfu = SpareLFU
    /\ Quiet
    /\ activePolicy = FirstPolicy
    /\ data = [p \in Policies |-> EmptyMap]
    /\ size = RaceCapacities
    /\ stats = [p \in Policies |-> NoStats]
    /\ settings = [EvictPartialCapacityFilling |-> TRUE, MigrationStrategy |-> MigrationCold]
    /\ migration = clearMigrationState
    /\ pc = [t \in Racers |-> Idle]
    /\ written = EmptyMap
    /\ last = Result("new", NoKey, ZeroValue, FALSE, Undefined)

NextRace ==
    \/ \E t \in Racers, k \in FewKeys : GetLoad(t, k) /\ UNCHANGED aside
    \/ \E t \in Racers : GetStore(t) /\ UNCHANGED aside
    \/ \E t \in Racers : Stats(t) /\ UNCHANGED aside
    \/ \E t \in Racers, k \in FewKeys, v \in Values : NoReader /\ Add(t, k, v) /\ UNCHANGED aside
    \/ \E t \in Racers, k \in FewKeys : NoReader /\ Remove(t, k) /\ UNCHANGED aside
    \/ \E t \in Racers : NoReader /\ Purge(t) /\ UNCHANGED aside
    \/ \E newPolicy \in Policies : NoReader /\ tryChangePolicy(newPolicy) /\ UNCHANGED <<life, aside>>

SpecRace == InitRace /\ [][NextRace]_vars

\* ----------------------------------------------------------------- Resize
\* the Resize of a policy that has one: the capacity becomes n and the keys
\* over it go; gone is the set of keys it evicts
PolicyResize(d, n, gone) ==
    [data |-> Restrict(d, DOMAIN d \ gone), evicted |-> Cardinality(gone)]

\* the sets of keys a Resize to n can evict
ResizeChoices(d, n) ==
    {g \in SUBSET DOMAIN d : Cardinality(g) = IF PolicyLen(d) > n THEN PolicyLen(d) - n ELSE 0}

\* lfu.Cache.Resize is panic("implement me")
resizePanics(p) == p = LFU

\* the policies Resize has called before it meets one that panics, for the
\* order the map is ranged over in
resized(order) ==
    {order[i] : i \in {j \in 1..Len(order) : \A h \in 1..j : ~resizePanics(order[h])}}

RECURSIVE SumEvicted(_, _)
SumEvicted(ev, S) ==
    IF S = {} THEN 0
    ELSE LET p == CHOOSE x \in S : TRUE IN ev[p] + SumEvicted(ev, S \ {p})

\* Resize: every policy in turn, in the order of the map; the counts add up
Resize(t, n) ==
    /\ cache = "built" /\ pc[t].st = "idle"
    /\ \E order \in Orders(Policies) :
       \E gone \in [Policies -> SUBSET Keys] :
          LET done == resized(order)
          IN  /\ \A p \in Policies :
                    gone[p] \in (IF p \in done THEN ResizeChoices(data[p], n) ELSE {{}})
              /\ data' = [p \in Policies |-> PolicyResize(data[p], n, gone[p]).data]
              /\ size' = [p \in Policies |-> IF p \in done THEN n ELSE size[p]]
              /\ last' = IF done = Policies
                         THEN Result("resize", NoKey,
                                     SumEvicted([p \in Policies |-> PolicyResize(data[p], n, gone[p]).evicted],
                                                Policies),
                                     TRUE, Undefined)
                         ELSE Panic(NoKey)
    /\ UNCHANGED <<activePolicy, stats, settings, migration, pc, written>>
    /\ UNCHANGED life

NextResize ==
    \/ \E t \in Threads, k \in FewKeys, v \in Values : Add(t, k, v) /\ UNCHANGED aside
    \/ \E t \in Threads, k \in FewKeys : Get(t, k) /\ UNCHANGED aside
    \/ \E t \in Threads : GetPromote(t) /\ UNCHANGED aside
    \/ \E t \in Threads, k \in FewKeys : Remove(t, k) /\ UNCHANGED aside
    \/ \E t \in Threads : Purge(t) /\ UNCHANGED aside
    \/ \E newPolicy \in Policies : tryChangePolicy(newPolicy) /\ UNCHANGED <<life, aside>>
    \/ \E t \in Threads, n \in Capacities : Resize(t, n) /\ UNCHANGED aside

\* the cache with partial-capacity switching on: the capacity gate, which
\* asks the wrapper for the capacity it was built with, is never consulted
SpecResize == InitReads /\ [][NextResize]_vars

\* ------------------------------------------------------ simplelfu.LFU
\* a frequency list holds its keys front first
PushFront(l, k) == <<k>> \o l
Back(l) == l[Len(l)]
ListRemove(l, k) == SelectSeq(l, LAMBDA x : x # k)
LFUSizes == {1, 2}

\* updateFreq(ent): take the entry out of its list, delete the list if that
\* emptied it, lower minFreq to the new frequency if that is smaller, and
\* push the entry on the front of the list of the new frequency
updateFreq(c, k) ==
    LET freq == c.items[k].Freq
        rest == ListRemove(c.evictList[freq], k)
        kept == IF Len(rest) = 0 THEN Drop(c.evictList, freq) ELSE Put(c.evictList, freq, rest)
        newFreq == freq + 1
        made == IF Has(kept, newFreq) THEN kept ELSE Put(kept, newFreq, <<>>)
    IN  [size |-> c.size,
         minFreq |-> Min(c.minFreq, newFreq),
         items |-> Put(c.items, k, [Value |-> c.items[k].Value, Freq |-> newFreq]),
         evictList |-> Put(made, newFreq, PushFront(made[newFreq], k))]

\* removeElement(e): out of its list and out of items; the list stays, also
\* when it is left empty, and minFreq stays
removeElement(c, k) ==
    [c EXCEPT !.evictList = Put(c.evictList, c.items[k].Freq,
                                ListRemove(c.evictList[c.items[k].Freq], k)),
              !.items = Drop(c.items, k)]

\* Len()
LFULen(c) == Cardinality(DOMAIN c.items)
\* Add that never finds the cache full
addNeverEvicts(c, k) == FALSE
\* Add of a key that is not stored, by a cache that is full
addEvicts(c, k) == ~Has(c.items, k) /\ LFULen(c) = c.size
\* c.evictList[c.minFreq].Back() with no list at minFreq is a call on a nil
\* list, and with an empty list it gives a nil entry whose Key is read next
noVictim(c) == ~Has(c.evictList, c.minFreq) \/ Len(c.evictList[c.minFreq]) = 0
\* the entry Add evicts: the back of the list of minFreq
victim(c) == Back(c.evictList[c.minFreq])

\* Add, the part after the eviction: the key goes on the front of the list of
\* frequency 1, made if missing, and minFreq becomes 1
addNew(c, k, v) ==
    LET made == IF Has(c.evictList, 1) THEN c.evictList ELSE Put(c.evictList, 1, <<>>)
    IN  [size |-> c.size,
         minFreq |-> 1,
         items |-> Put(c.items, k, [Value |-> v, Freq |-> 1]),
         evictList |-> Put(made, 1, PushFront(made[1], k))]

\* the variables of the adaptive cache, which the bare LFU does not touch
cacheVars == <<activePolicy, data, size, stats, settings, migration, pc, written, life,
               bandit, seen, mu, epochID>>

\* LFU.Add(key, value)
LFUAdd(k, v) ==
    /\ Has(lfu.items, k) => lfu.items[k].Freq < MaxFreq
    /\ IF Has(lfu.items, k)
       THEN /\ lfu' = updateFreq([lfu EXCEPT !.items[k].Value = v], k)
            /\ last' = Result("lfu.Add", k, v, FALSE, Undefined)
       ELSE IF addEvicts(lfu, k) /\ noVictim(lfu)
       THEN /\ lfu' = lfu
            /\ last' = Panic(k)
       ELSE IF addEvicts(lfu, k)
       THEN /\ lfu' = addNew(removeElement(lfu, victim(lfu)), k, v)
            /\ last' = Result("lfu.Add", k, v, TRUE, Undefined)
       ELSE /\ lfu' = addNew(lfu, k, v)
            /\ last' = Result("lfu.Add", k, v, FALSE, Undefined)
    /\ UNCHANGED cacheVars

\* LFU.Get(key)
LFUGet(k) ==
    /\ Has(lfu.items, k) => lfu.items[k].Freq < MaxFreq
    /\ IF Has(lfu.items, k)
       THEN /\ lfu' = updateFreq(lfu, k)
            /\ last' = Result("lfu.Get", k, lfu.items[k].Value, TRUE, Undefined)
       ELSE /\ lfu' = lfu
            /\ last' = Result("lfu.Get", k, ZeroValue, FALSE, Undefined)
    /\ UNCHANGED cacheVars

\* LFU.Peek(key)
LFUPeek(k) ==
    /\ last' = IF Has(lfu.items, k)
               THEN Result("lfu.Peek", k, lfu.items[k].Value, TRUE, Undefined)
               ELSE Result("lfu.Peek", k, ZeroValue, FALSE, Undefined)
    /\ UNCHANGED <<lfu, cacheVars>>

\* LFU.Remove(key)
LFURemove(k) ==
    /\ lfu' = IF Has(lfu.items, k) THEN removeElement(lfu, k) ELSE lfu
    /\ last' = Result("lfu.Remove", k, ZeroValue, Has(lfu.items, k), Undefined)
    /\ UNCHANGED cacheVars

\* LFU.Purge()
LFUPurge ==
    /\ lfu' = [lfu EXCEPT !.items = EmptyMap, !.evictList = EmptyMap, !.minFreq = 0]
    /\ last' = Result("lfu.Purge", NoKey, ZeroValue, TRUE, Undefined)
    /\ UNCHANGED cacheVars

\* an LFU of either size, just made; the adaptive cache beside it is idle
InitLFU ==
    /\ Built
    /\ lfu \in {NewLFU(n) : n \in LFUSizes}
    /\ Quiet
    /\ activePolicy = FirstPolicy
    /\ data = [p \in Policies |-> EmptyMap]
    /\ size = [p \in Policies |-> 1]
    /\ stats = [p \in Policies |-> NoStats]
    /\ settings = [EvictPartialCapacityFilling |-> TRUE, MigrationStrategy |-> MigrationCold]
    /\ migration = clearMigrationState
    /\ pc = [t \in Threads |-> Idle]
    /\ written = EmptyMap
    /\ last = Result("lfu.New", NoKey, ZeroValue, FALSE, Undefined)

NextLFU ==
    \/ \E k \in Keys, v \in Values : LFUAdd(k, v)
    \/ \E k \in Keys : LFUGet(k)
    \/ \E k \in Keys : LFUPeek(k)
    \/ \E k \in Keys : LFURemove(k)
    \/ LFUPurge

SpecLFU == InitLFU /\ [][NextLFU]_vars

\* ------------------------------------------------- reports to the bandit
\* ShadowStats{Policy: policy.GetType(), Hits: stats.Hits, Misses: stats.Misses}
ShadowStats(p, st) == [Policy |-> p, Hits |-> st.Hits, Misses |-> st.Misses]

\* tryChangePolicy gets as far as its loop over the policies
pastGate(D, sz, cfg, cur) ==
    IF nilPolicy(cur) THEN cfg.EvictPartialCapacityFilling ELSE ~gateClosed(D, sz, cfg, cur)

\* the calls of c.bandit.RecordStats in one tick: one for each policy the
\* loop does not skip, in the order the map is ranged over, each with the
\* counters GetStats gave before ResetStats
RecordStats ==
    IF pastGate(data, size, settings, activePolicy)
    THEN \E order \in Orders(Policies \ {activePolicy}) :
            bandit' = [i \in 1..Len(order) |-> ShadowStats(order[i], stats[order[i]])]
    ELSE bandit' = <<>>

\* the lookups a step adds to the counters, added to a tally
tally(T, S, S1) ==
    [p \in Policies |-> [Hits |-> T[p].Hits + S1[p].Hits - S[p].Hits,
                         Misses |-> T[p].Misses + S1[p].Misses - S[p].Misses]]
NoneSeen == [p \in Policies |-> NoStats]

\* the cache with its bandit watched: every tick is an epoch boundary. The
\* strategy is cold, under which no Get has a second phase.
NextEpoch ==
    \/ \E t \in Threads, k \in FewKeys, v \in Values :
          Add(t, k, v) /\ UNCHANGED aside
    \/ \E t \in Threads, k \in FewKeys :
          Get(t, k) /\ seen' = tally(seen, stats, stats') /\ UNCHANGED <<lfu, bandit, mu, epochID>>
    \/ \E t \in Threads, k \in FewKeys : Remove(t, k) /\ UNCHANGED aside
    \/ \E t \in Threads : Purge(t) /\ UNCHANGED aside
    \/ \E newPolicy \in Policies :
          /\ tryChangePolicy(newPolicy)
          /\ RecordStats
          /\ seen' = NoneSeen
          /\ UNCHANGED <<life, lfu, mu, epochID>>

InitEpoch == InitBandit /\ size = RaceCapacities

SpecEpoch == InitEpoch /\ [][NextEpoch]_vars

\* ------------------------------------------------------- the guard c.mu
\* sync.RWMutex. holdW is the writer that has announced itself: it has the
\* lock once the readers that were in have left, and no reader gets in from
\* the moment it is announced. waitW are the writers queued behind it, waitR
\* the readers it keeps out.
Guards == {"g1"}
Driver == "driver"
GuardClosers == {"c1"}
GuardValues == {1}
Lockers == Guards \cup {Driver}

\* RUnlock that leaves the shared lock held
keepShared(m, t) == m

\* c.mu.RLock()
RLock(m, t) ==
    IF m.holdW = {} THEN [m EXCEPT !.holdR = @ \cup {t}] ELSE [m EXCEPT !.waitR = @ \cup {t}]
\* c.mu.RUnlock()
RUnlock(m, t) == [m EXCEPT !.holdR = @ \ {t}]
\* c.mu.Lock()
Lock(m, t) ==
    IF m.holdW = {} THEN [m EXCEPT !.holdW = {t}] ELSE [m EXCEPT !.waitW = @ \cup {t}]
\* c.mu.Unlock(): the readers kept out get in, then the writers' queue is let go
Unlock(m, t) == [m EXCEPT !.holdW = {}, !.holdR = @ \cup m.waitR, !.waitR = {}]
\* a guard test that is also passed by a writer still queued for the lock
ownsQueued(m, t) == t \in m.holdW \cup m.waitW

\* t has the lock exclusively
owns(m, t) == m.holdW = {t} /\ m.holdR = {}
\* t is inside a call of c.mu or between them
onGuard(m, t) == t \in m.holdW \cup m.holdR \cup m.waitW \cup m.waitR

\* everything but the guard
guarded == <<activePolicy, data, size, stats, settings, migration, pc, written, last, life,
             lfu, bandit, seen, epochID>>

\* a caller enters Get or a read-only call: c.mu.RLock()
callShared(t) ==
    /\ cache = "built"
    /\ pc[t].st = "idle" /\ ~onGuard(mu, t)
    /\ mu' = RLock(mu, t)
    /\ UNCHANGED guarded

\* a caller enters Add, Remove, Purge or Resize, or goes on from the first
\* phase of Get to tryPromote: c.mu.Lock()
callExclusive(t) ==
    /\ cache = "built"
    /\ ~onGuard(mu, t)
    /\ mu' = Lock(mu, t)
    /\ UNCHANGED guarded

\* a queued writer gets the writers' mutex
grab(t) ==
    /\ t \in mu.waitW /\ mu.holdW = {}
    /\ mu' = [mu EXCEPT !.holdW = {t}, !.waitW = @ \ {t}]
    /\ UNCHANGED guarded

\* the body of a call under the shared lock, up to its RUnlock
sharedBody(t) ==
    /\ t \in mu.holdR
    /\ \/ \E k \in OneKey : Get(t, k)
       \/ \E k \in OneKey : Peek(t, k)
    /\ mu' = RUnlock(mu, t)
    /\ UNCHANGED <<lfu, bandit, seen, epochID>>

\* the body of a call under the exclusive lock, up to its deferred Unlock,
\* which also runs when the body panics
exclusiveBody(t) ==
    /\ owns(mu, t)
    /\ \/ \E k \in OneKey, v \in GuardValues : Add(t, k, v)
       \/ \E k \in OneKey : Remove(t, k)
       \/ Purge(t)
       \/ \E n \in {LifeCapacities[FirstPolicy]} : Resize(t, n)
       \/ GetPromote(t)
    /\ mu' = Unlock(mu, t)
    /\ UNCHANGED <<lfu, bandit, seen, epochID>>

\* the driver has taken a tick in its select and enters tryChangePolicy
driverLock ==
    /\ driver = "running" /\ epochTicker.C = 1
    /\ ~onGuard(mu, Driver)
    /\ mu' = Lock(mu, Driver)
    /\ UNCHANGED guarded

\* tryChangePolicy under the exclusive lock
driverTick(newPolicy) ==
    /\ owns(mu, Driver)
    /\ runAdaptiveSelect(newPolicy) /\ driver' = driver
    /\ mu' = Unlock(mu, Driver)
    /\ UNCHANGED <<lfu, bandit, seen, epochID>>

\* the driver takes the Done case of its select
driverExit ==
    /\ ~onGuard(mu, Driver)
    /\ runAdaptiveSelect(activePolicy) /\ driver' = "exited"
    /\ UNCHANGED aside

InitGuard ==
    /\ Built
    /\ lfu = SpareLFU
    /\ Quiet
    /\ activePolicy = FirstPolicy
    /\ data = [p \in Policies |-> EmptyMap]
    /\ size = LifeCapacities
    /\ stats = [p \in Policies |-> NoStats]
    /\ settings = [EvictPartialCapacityFilling |-> TRUE, MigrationStrategy |-> MigrationGradual]
    /\ migration = clearMigrationState
    /\ pc = [t \in Guards |-> Idle]
    /\ written = EmptyMap
    /\ last = Result("new", NoKey, ZeroValue, FALSE, Undefined)

NextGuard ==
    \/ \E t \in Guards : callShared(t)
    \/ \E t \in Guards : callExclusive(t)
    \/ \E t \in Lockers : grab(t)
    \/ \E t \in Guards : sharedBody(t)
    \/ \E t \in Guards : exclusiveBody(t)
    \/ tickerFire /\ UNCHANGED aside
    \/ driverLock
    \/ \E newPolicy \in Policies : driverTick(newPolicy)
    \/ driverExit
    \/ \E c \in GuardClosers : Close(c) /\ UNCHANGED aside
    \/ \E c \in GuardClosers : CloseReturn(c) /\ UNCHANGED aside

SpecGuard == InitGuard /\ [][NextGuard]_vars

\* a thread is inside a call: on the guard, or between the two phases of Get
inCall(t) == onGuard(mu, t) \/ (t \in Guards /\ pc[t].st = "promote")

\* the scheduler runs every goroutine that can run, so a body that holds the
\* lock is finished and a Get between its phases goes on to Lock; sync.Mutex
\* does not starve a waiter, so a queued writer that finds the writers'
\* mutex free again and again gets it
GuardFairness ==
    /\ \A t \in Guards : WF_vars(sharedBody(t))
    /\ \A t \in Guards : WF_vars(exclusiveBody(t))
    /\ \A t \in Guards : WF_vars(pc[t].st = "promote" /\ callExclusive(t))
    /\ WF_vars(\E newPolicy \in Policies : driverTick(newPolicy))
    /\ \A t \in Lockers : SF_vars(grab(t))

SpecGuardFair == InitGuard /\ [][NextGuard]_vars /\ GuardFairness

\* --------------------------------------------------------------- claims
Shadows == Policies \ {activePolicy}
Lookups(S, p) == S[p].Hits + S[p].Misses
\* no policy is full before every key the callers of Spec use is in it
NoEviction == \A p \in Policies : size[p] >= Cardinality(FewKeys)
Switched == last.op = "tick" /\ last.ok

\* a step in which Get(k) returns to its caller, in one phase or after tryPromote
GetReturned(k) ==
    /\ last'.op = "get" /\ last'.key = k
    /\ \E t \in Threads :
          /\ pc'[t].st = "idle"
          /\ \/ pc[t].st = "promote"
             \/ pc' = pc /\ stats' # stats
\* a step in which the first phase of Get(k) runs
GetLookedUp(k) ==
    \/ \E t \in Threads : pc[t].st = "idle" /\ pc'[t] = [st |-> "promote", key |-> k]
    \/ pc' = pc /\ stats' # stats /\ last'.op = "get" /\ last'.key = k
\* a step in which tryPromote(k) runs
Promoted(k) == \E t \in Threads : pc[t] = [st |-> "promote", key |-> k] /\ pc'[t].st = "idle"

C3_AddReachesEveryPolicy ==
    last.op = "add" =>
        /\ \A p \in Shadows : PolicyContains(data[p], last.key)
        /\ Has(data[activePolicy], last.key)
        /\ data[activePolicy][last.key] = written[last.key]

\* an Add of a non-zero value has returned, with a shadow holding the key
C3_Witness ==
    /\ last.op = "add" /\ written[last.key] # ZeroValue
    /\ \E p \in Shadows : Has(data[p], last.key) /\ data[p][last.key] = ZeroValue

\* C4: the first phase of Get(k) raises, for every shadow policy, Hits by one
\* if the shadow holds k and Misses by one if not, and nothing else of its
\* counters; tryPromote changes no counter.
C4_ShadowCountsOnce ==
    [][ \A k \in Keys :
          /\ GetLookedUp(k) =>
                \A p \in Shadows :
                   stats'[p] = IF Has(data[p], k)
                               THEN [Hits |-> stats[p].Hits + 1, Misses |-> stats[p].Misses]
                               ELSE [Hits |-> stats[p].Hits, Misses |-> stats[p].Misses + 1]
          /\ Promoted(k) => stats' = stats
      ]_vars

\* a Get has returned a promoted value: the active policy counted a miss and
\* no hit, the source a hit
C4_Witness ==
    /\ last.op = "get" /\ last.ok
    /\ stats[activePolicy] = [Hits |-> 0, Misses |-> 1]
    /\ \E p \in Shadows : stats[p].Hits = 1

\* C5: after Remove(k) no policy contains k and k is not eligible; the Get(k)
\* that follows misses; Remove returns whether the active policy held k.
C5_RemoveEverywhere ==
    [][ /\ last'.op = "remove" =>
             /\ \A p \in Policies : ~Has(data'[p], last'.key)
             /\ last'.key \notin migration'.migrationRealKeys
             /\ last' # last => last'.ok = Has(data[activePolicy], last'.key)
        /\ \A k \in Keys :
             (last.op = "remove" /\ last.key = k /\ GetReturned(k)) => ~last'.ok
      ]_vars

\* Remove has returned true during a gradual window whose source held the key
C5_Witness ==
    /\ last.op = "remove" /\ last.ok
    /\ migration.migrating /\ migration.migrationRealKeys # {}

\* C6: after Purge() every policy is empty and no migration is active.
C6_PurgeClearsAll ==
    last.op = "purge" =>
        /\ \A p \in Policies : PolicyLen(data[p]) = 0
        /\ ~migration.migrating
        /\ migration.migrationRealKeys = {}
        /\ migration.migrationKeys = <<>>

\* Purge has returned after a gradual switch and some traffic
C6_Witness ==
    /\ last.op = "purge"
    /\ settings.MigrationStrategy = MigrationGradual /\ activePolicy # FirstPolicy
    /\ \E p \in Policies : Lookups(stats, p) > 0

Cold == settings.MigrationStrategy = MigrationCold
Warm == settings.MigrationStrategy = MigrationWarm
Gradual == settings.MigrationStrategy = MigrationGradual

C9_PromoteIffEligible ==
    [][ /\ \A k \in Keys :
             Promoted(k) =>
                /\ last'.op = "get" /\ last'.key = k
                /\ k \notin migration'.migrationRealKeys
                /\ IF /\ migration.migrating
                      /\ k \in migration.migrationRealKeys
                      /\ Has(data[migration.migrateFrom], k)
                   THEN /\ last'.ok
                        /\ last'.value = data[migration.migrateFrom][k]
                        /\ Has(data'[activePolicy], k)
                        /\ data'[activePolicy][k] = last'.value
                   ELSE /\ ~last'.ok
                        /\ last'.value = ZeroValue
                        /\ data' = data
        /\ last'.op = "add" => last'.key \notin migration'.migrationRealKeys
        /\ ~migration'.migrating => migration'.migrationRealKeys = {}
      ]_vars

\* a Get has returned a value promoted from the source of an open window
C9_Witness ==
    /\ last.op = "get" /\ last.ok /\ last.value # ZeroValue
    /\ migration.migrating
    /\ stats[activePolicy].Hits = 0
    /\ Has(data[migration.migrateFrom], last.key)

\* C10 as stated: once Add(k, v') has run in a gradual window, every later
\* Get(k) returns (v', true); so while the window is open and k is neither
\* removed nor purged, the active policy must still hold (k, v') after the
\* next call.
C10_LaterGetAlwaysFinds ==
    [][ \A k \in Keys :
          ( /\ migration.migrating /\ last.op = "add" /\ last.key = k
            /\ migration'.migrating
            /\ last'.op \in {"add", "get"} )
          => (Has(data'[activePolicy'], k) /\ data'[activePolicy'][k] = written'[k])
      ]_vars

\* C10, amended: once Add(k, v') has run in a gradual window, k is not
\* eligible and the active policy holds (k, v'); the Get(k) that follows
\* returns (v', true); and as long as the window is open every key the active
\* policy holds is not eligible and has the value of its last Add, so a later
\* Get(k) returns (v', true) unless the active policy has evicted k.
C10_NewValueWins ==
    [][ /\ \A k \in Keys :
             /\ (migration'.migrating /\ last'.op = "add" /\ last'.key = k) =>
                    /\ k \notin migration'.migrationRealKeys
                    /\ Has(data'[activePolicy'], k)
                    /\ data'[activePolicy'][k] = written'[k]
             /\ (migration.migrating /\ last.op = "add" /\ last.key = k /\ GetReturned(k)) =>
                    (last'.ok /\ last'.value = written[k])
             /\ (migration.migrating /\ GetReturned(k) /\ Has(data[activePolicy], k)) =>
                    (last'.ok /\ last'.value = written[k])
        /\ migration'.migrating =>
             \A k \in DOMAIN data'[activePolicy'] :
                /\ k \notin migration'.migrationRealKeys
                /\ Has(written', k) /\ data'[activePolicy'][k] = written'[k]
      ]_vars

\* in an open window the caller has overwritten a key whose older value the
\* source had, and the source now has the placeholder
C10_Witness ==
    /\ migration.migrating /\ last.op = "add"
    /\ written[last.key] # ZeroValue
    /\ Has(data[migration.migrateFrom], last.key)
    /\ data[migration.migrateFrom][last.key] = ZeroValue
    /\ last.key \in Range(migration.migrationKeys)

\* a step in which Add(k, .) runs (or nothing changes)
AddStep(k) == last'.op = "add" /\ last'.key = k /\ pc' = pc /\ stats' = stats

\* C11 as stated: in a gradual window, with the new active policy empty right
\* after the switch and another eligible key in the source, one Add of a key
\* the source does not hold leaves the active policy with exactly 2 keys.
C11_FreshAddLeavesTwo ==
    [][ \A k \in Keys :
          ( /\ Gradual /\ Switched /\ migration.migrating
            /\ PolicyLen(data[activePolicy]) = 0
            /\ ~Has(data[migration.migrateFrom], k)
            /\ \E x \in migration.migrationRealKeys \ {k} : Has(data[migration.migrateFrom], x)
            /\ AddStep(k) )
          => PolicyLen(data'[activePolicy']) = 2
      ]_vars

\* C11, amended: in a gradual window one Add(k, .) brings at most one key
\* other than k into the active policy, an eligible one, with the value the
\* source has for it. With the new active policy empty right after the
\* switch and another eligible key in the source, an Add of a key the source
\* does not hold leaves the active policy with exactly 2 keys when the active
\* policy can hold 2 keys and the source is not full (so that the shadow Add
\* evicts nothing from it).
C11_DrainsAtMostOne ==
    [][ \A k \in Keys :
          (migration.migrating /\ AddStep(k)) =>
             LET a == activePolicy
                 from == migration.migrateFrom
                 new == DOMAIN data'[a] \ (DOMAIN data[a] \cup {k})
             IN  /\ Cardinality(new) <= 1
                 /\ \A x \in new :
                       /\ x \in migration.migrationRealKeys
                       /\ Has(data[from], x) /\ data'[a][x] = data[from][x]
                 /\ ( /\ Switched /\ PolicyLen(data[a]) = 0
                      /\ ~Has(data[from], k)
                      /\ \E x \in migration.migrationRealKeys \ {k} : Has(data[from], x)
                      /\ size[a] >= 2 /\ PolicyLen(data[from]) < size[from] )
                     => (PolicyLen(data'[a]) = 2 /\ Cardinality(new) = 1)
      ]_vars

\* the first Add after a gradual switch has left its key and one drained key
\* in the active policy
C11_Witness ==
    /\ Gradual /\ last.op = "add" /\ activePolicy # FirstPolicy
    /\ Lookups(stats, activePolicy) = 0
    /\ PolicyLen(data[activePolicy]) = 2
    /\ \E x \in DOMAIN data[activePolicy] \ {last.key} : data[activePolicy][x] # ZeroValue

Pending(D, m, k, v) ==
    /\ m.migrating /\ k \in m.migrationRealKeys
    /\ Has(D[m.migrateFrom], k) /\ D[m.migrateFrom][k] = v
Held(D, a, k, v) == Has(D[a], k) /\ D[a][k] = v

\* C13: under gradual, where no policy can evict: a switch makes every key
\* of the outgoing policy eligible, with its value still in the source; an
\* Add or Get in the window leaves every other key either waiting in the
\* source or in the active policy, with the same value; so when an Add
\* closes the window by draining, every key that was still eligible is in
\* the active policy with the value it had before the switch.
C13_DrainLosesNothing ==
    [][ (Gradual /\ NoEviction) =>
          /\ activePolicy' # activePolicy =>
                \A k \in DOMAIN data[activePolicy] :
                    Pending(data', migration', k, data[activePolicy][k])
          /\ ( /\ migration.migrating /\ activePolicy' = activePolicy
               /\ (pc' # pc \/ last'.op \in {"add", "get"}) ) =>
                \A k \in Keys, v \in Values :
                    ~(AddStep(k)) =>
                       /\ Pending(data, migration, k, v) =>
                             (Pending(data', migration', k, v) \/ Held(data', activePolicy, k, v))
                       /\ Held(data, activePolicy, k, v) => Held(data', activePolicy, k, v)
          /\ \A k \in Keys :
                (migration.migrating /\ ~migration'.migrating /\ AddStep(k)) =>
                    \A x \in migration.migrationRealKeys \ {k} :
                        Held(data', activePolicy, x, data[migration.migrateFrom][x])
      ]_vars

\* an Add has closed a window by draining the last eligible key, which the
\* active policy now holds with the caller's value
C13_Witness ==
    /\ Gradual /\ NoEviction /\ ~migration.migrating
    /\ last.op = "add" /\ activePolicy # FirstPolicy
    /\ Lookups(stats, activePolicy) = 0
    /\ \E x \in DOMAIN data[activePolicy] \ {last.key} :
          /\ data[activePolicy][x] # ZeroValue
          /\ Has(written, x) /\ data[activePolicy][x] = written[x]

\* a step in which tryChangePolicy runs (or nothing changes)
TickStep == last'.op = "tick" /\ pc' = pc /\ stats' \in {stats, collectStats(stats, activePolicy)}

Migrated(A, W) ==
    /\ \A p \in Policies \ {W} : data'[p] = data[p]
    /\ Cold => (data'[W] = EmptyMap /\ ~migration'.migrating)
    /\ Warm =>
          /\ \A k \in DOMAIN data'[W] : Held(data, A, k, data'[W][k])
          /\ PolicyLen(data'[W]) = Min(size[W], PolicyLen(data[A]))
          /\ ~migration'.migrating
    /\ Gradual =>
          /\ data'[W] = EmptyMap
          /\ migration'.migrating /\ migration'.migrateFrom = A
          /\ migration'.migrationRealKeys = DOMAIN data[A]
          /\ Range(migration'.migrationKeys) = DOMAIN data[A]
          /\ Len(migration'.migrationKeys) = PolicyLen(data[A])

C17_ActiveAlwaysRegistered ==
    /\ activePolicy \in Policies
    /\ last.op # "panic"

\* C18: NewAdaptiveCache with a list of length 0 (empty or nil) returns
\* ErrEmptyPolicies and no cache, and creates neither context, ticker nor
\* driver; with any other list it never returns ErrEmptyPolicies: it returns
\* the cache and a nil error, or does not return. There is a driver only
\* where there is a cache.
C18_EmptyListFails ==
    [][ /\ \A ps \in PolicyLists, dur \in Durations :
             NewAdaptiveCache(ps, dur) =>
                /\ Len(ps) = 0 =>
                      /\ err' = "ErrEmptyPolicies"
                      /\ cache' = "none" /\ driver' = "none"
                      /\ ctx' = ctx /\ epochTicker' = epochTicker
                      /\ activePolicy' = activePolicy
                /\ Len(ps) # 0 => err' \in {"nil", "panic"}
                /\ err' = "nil" <=> cache' = "built"
        /\ cache' = "none" => (driver' = "none" /\ ~epochTicker'.running)
      ]_vars

\* the constructor has failed on an empty list
C18_Witness ==
    /\ err = "ErrEmptyPolicies"
    /\ cache = "none" /\ driver = "none" /\ ctx = "none"

\* C19: NewAdaptiveCache that returns a cache makes the first policy of its
\* list the active one, and the active policy of a cache changes only on a
\* round of the driver whose tick switches to another registered policy.
C19_FirstUntilSwitch ==
    [][ /\ \A ps \in PolicyLists, dur \in Durations :
             (NewAdaptiveCache(ps, dur) /\ cache' = "built") => activePolicy' = ps[1]
        /\ (cache = "built" /\ activePolicy' # activePolicy) =>
             /\ last' = Result("tick", NoKey, ZeroValue, TRUE, activePolicy)
             /\ activePolicy' \in Policies
             /\ epochTicker.C = 1 /\ epochTicker'.C = 0
      ]_vars

\* a cache built from a list that starts with LFU, before its first tick is
\* handled
C19_Witness ==
    /\ cache = "built" /\ last.op = "new"
    /\ activePolicy = LFU
    /\ epochTicker.C = 1

\* C20: Close can always be called and always completes; it returns nil;
\* after it the context is cancelled and the ticker stopped; and a Close of a
\* cache whose context is already cancelled and whose ticker is already
\* stopped changes nothing of the cache.
C20_CloseIdempotent ==
    [][ \A c \in Closers :
          /\ (cache = "built" /\ c \notin closing) => ENABLED Close(c)
          /\ c \in closing => ENABLED CloseReturn(c)
          /\ Close(c) =>
                /\ ctx' = "cancelled"
                /\ ctx = "cancelled" => ctx' = ctx
                /\ UNCHANGED <<activePolicy, data, size, stats, settings, migration,
                               cache, epochTicker, driver>>
          /\ CloseReturn(c) =>
                /\ last'.op = "close" /\ last'.ok
                /\ ~epochTicker'.running
                /\ ~epochTicker.running => epochTicker' = epochTicker
                /\ UNCHANGED <<activePolicy, data, size, stats, settings, migration,
                               cache, ctx, driver>>
      ]_vars

\* one Close has returned while another is between its two statements
C20_Witness ==
    /\ last.op = "close" /\ closing # {}
    /\ ctx = "cancelled" /\ ~epochTicker.running

\* a Close has returned: the context is cancelled and the ticker stopped
\* (the driver stops the ticker only as it exits)
Closed == ctx = "cancelled" /\ ~epochTicker.running

\* C21: once a Close has returned, no round of the driver changes the active
\* policy, the contents of a policy, the migration state or a counter, also
\* when a tick was in the ticker's channel at the time of the Close.
C21_NoSwitchAfterClose ==
    [][ Closed =>
          \A newPolicy \in Policies :
             runAdaptiveSelect(newPolicy) =>
                /\ activePolicy' = activePolicy
                /\ data' = data
                /\ migration' = migration
                /\ stats' = stats
      ]_vars

\* what a step that is a read-only call leaves as it was
Untouched ==
    /\ activePolicy' = activePolicy
    /\ data' = data
    /\ stats' = stats
    /\ migration' = migration
    /\ size' = size /\ pc' = pc

\* C23: Peek, Contains, Keys, Values and Len return what the active policy
\* returns for the same call, and change no policy's contents, no hit or
\* miss counter and nothing of the migration state.
C23_ReadsDelegateToActive ==
    [][ \A t \in Threads :
          /\ \A k \in FewKeys :
                /\ Peek(t, k) =>
                      /\ last'.value = PolicyPeek(data[activePolicy], k).value
                      /\ last'.ok = PolicyPeek(data[activePolicy], k).ok
                      /\ Untouched
                /\ Contains(t, k) =>
                      /\ last'.ok = PolicyContains(data[activePolicy], k)
                      /\ Untouched
          /\ CacheKeys(t) => (last'.keys = PolicyKeys(data[activePolicy]) /\ Untouched)
          /\ CacheValues(t) => (last'.values = PolicyValues(data[activePolicy]) /\ Untouched)
          /\ CacheLen(t) => (last'.value = PolicyLen(data[activePolicy]) /\ Untouched)
      ]_vars

\* a Peek in a migration window has missed a key that the source, a shadow
\* with counted lookups, still holds with a caller's value
C23_Witness ==
    /\ last.op = "peek" /\ ~last.ok
    /\ migration.migrating
    /\ Has(data[migration.migrateFrom], last.key)
    /\ data[migration.migrateFrom][last.key] # ZeroValue
    /\ \E p \in Shadows : Lookups(stats, p) > 0

\* C24: Stats returns the counters of the active policy as they are, and
\* every Get that returns raises exactly one of them by one: Hits when it
\* returns found, Misses when it returns not found.
C24_StatsCountGets ==
    [][ \A t \in Racers :
          /\ Stats(t) =>
                /\ last'.hits = stats[activePolicy].Hits
                /\ last'.misses = stats[activePolicy].Misses
          /\ GetStore(t) =>
                IF last'.ok
                THEN /\ stats'[activePolicy].Hits = stats[activePolicy].Hits + 1
                     /\ stats'[activePolicy].Misses = stats[activePolicy].Misses
                ELSE /\ stats'[activePolicy].Misses = stats[activePolicy].Misses + 1
                     /\ stats'[activePolicy].Hits = stats[activePolicy].Hits
      ]_vars

\* the number of keys a policy holds over n
Over(d, n) == IF PolicyLen(d) > n THEN PolicyLen(d) - n ELSE 0

\* C25: Resize(n) gives every registered policy the capacity n, each keeps
\* what fits of what it held, and the call returns the sum of the numbers of
\* keys the policies evicted.
C25_ResizeForwardsAndSums ==
    [][ \A t \in Threads, n \in Capacities :
          Resize(t, n) =>
             /\ \A p \in Policies :
                   /\ size'[p] = n
                   /\ PolicyLen(data'[p]) = PolicyLen(data[p]) - Over(data[p], n)
                   /\ \A k \in DOMAIN data'[p] : Has(data[p], k) /\ data'[p][k] = data[p][k]
             /\ last'.op = "resize"
             /\ last'.value = SumEvicted([p \in Policies |-> Over(data[p], n)], Policies)
      ]_vars

\* C26: when the LFU holds exactly `size` keys, Add of a key that is not
\* stored evicts exactly one stored key, that key has the least frequency of
\* all stored keys and is the one that has been longest in the list of that
\* frequency; this after any sequence of Add, Get, Peek and Remove
LeastFrequent(c, x) ==
    /\ \A y \in DOMAIN c.items : c.items[x].Freq <= c.items[y].Freq
    /\ Has(c.evictList, c.items[x].Freq)
    /\ Len(c.evictList[c.items[x].Freq]) > 0
    /\ x = Back(c.evictList[c.items[x].Freq])
C26_AddEvictsLeastFrequent ==
    [][\A k \in Keys, v \in Values :
          (LFUAdd(k, v) /\ ~Has(lfu.items, k) /\ LFULen(lfu) = lfu.size)
          => \E x \in DOMAIN lfu.items :
                /\ LeastFrequent(lfu, x)
                /\ DOMAIN lfu'.items = (DOMAIN lfu.items \ {x}) \cup {k}]_vars

\* C27: the LFU never holds more keys than the capacity it was made with,
\* whatever Add, Get, Peek, Remove and Purge came before, and an Add that
\* returns gives true exactly when it took a stored key out to make room
AddReturned == last'.op = "lfu.Add" /\ \E k \in Keys, v \in Values : LFUAdd(k, v)
Evicted == DOMAIN lfu.items \ DOMAIN lfu'.items # {}
C27_LenWithinCapAddReportsEviction ==
    [][/\ LFULen(lfu) <= lfu.size
       /\ LFULen(lfu') <= lfu'.size
       /\ AddReturned => (last'.ok <=> Evicted)]_vars
C27_Witness ==
    /\ last.op = "lfu.Add" /\ last.ok
    /\ lfu.size = 2 /\ LFULen(lfu) = 2
    /\ \E x \in DOMAIN lfu.items : lfu.items[x].Freq > 1

\* C28: a tick that passes the capacity gate reads the counters of each
\* non-active policy, gives the bandit exactly one report for it, with the
\* policy's type and the hits and misses read, and resets them; the counters
\* of the active policy are not reported and not reset
EpochTick == \E newPolicy \in Policies : tryChangePolicy(newPolicy) /\ RecordStats
ReportsOf(p) == {i \in DOMAIN bandit' : bandit'[i].Policy = p}
C28_TickReportsShadowsOnly ==
    [][(EpochTick /\ pastGate(data, size, settings, activePolicy))
       => /\ \A p \in Policies \ {activePolicy} :
               /\ Cardinality(ReportsOf(p)) = 1
               /\ \A i \in ReportsOf(p) :
                     bandit'[i].Hits = stats[p].Hits /\ bandit'[i].Misses = stats[p].Misses
               /\ stats'[p] = NoStats
          /\ ReportsOf(activePolicy) = {}
          /\ stats'[activePolicy] = stats[activePolicy]]_vars
C28_Witness ==
    /\ last.op = "tick"
    /\ \E i \in DOMAIN bandit : bandit[i].Hits + bandit[i].Misses > 0
    /\ stats[last.from].Hits + stats[last.from].Misses > 0

\* C29: every report the bandit gets covers one epoch: its hits and misses are
\* the lookups that policy counted since the previous tick, also for a policy
\* that was the active one in earlier epochs and has since been demoted
C29_ReportCoversOneEpoch ==
    [][EpochTick => \A i \in DOMAIN bandit' :
                      /\ bandit'[i].Hits = seen[bandit'[i].Policy].Hits
                      /\ bandit'[i].Misses = seen[bandit'[i].Policy].Misses]_vars

\* C30: in every reachable state a migration that is active goes with the
\* gradual strategy and a source other than the active policy; a Get is
\* served from the source only in such a state; and a switch leaves nothing
\* of an earlier migration: what it starts is made of the policy it leaves
MigrationSound ==
    migration.migrating => /\ settings.MigrationStrategy = MigrationGradual
                           /\ migration.migrateFrom \in Policies \ {activePolicy}
PromotedHit == \E t \in Threads : pc[t].st = "promote" /\ pc'[t].st = "idle" /\ last'.ok
C30_MigrationWindow ==
    [][/\ MigrationSound
       /\ MigrationSound'
       /\ PromotedHit => migration.migrating
       /\ activePolicy' # activePolicy
          => migration' \in {clearMigrationState} \cup
                            {[migrating |-> TRUE, migrateFrom |-> activePolicy,
                              migrationKeys |-> o, migrationRealKeys |-> DOMAIN data[activePolicy]] :
                                o \in Orders(DOMAIN data[activePolicy])}]_vars
C30_Witness ==
    /\ migration.migrating
    /\ last.op = "get" /\ last.ok /\ last.value # ZeroValue
    /\ last.key \notin migration.migrationRealKeys
    /\ Has(data[migration.migrateFrom], last.key)
    /\ Has(data[activePolicy], last.key)
    /\ data[activePolicy][last.key] = data[migration.migrateFrom][last.key]

\* C22: whatever the interleaving of calls, ticks and Close, every call that
\* has been entered returns: the readers-writer guard never holds a thread
\* for ever, neither in the Get that gives up the shared lock and takes the
\* exclusive one, nor in a call made after Close
C22_EveryCallReturns == \A t \in Lockers : inCall(t) ~> ~inCall(t)
C22_Witness ==
    /\ ctx = "cancelled" /\ closing = {} /\ driver = "exited"
    /\ last.op = "get" /\ last.ok /\ last.value # ZeroValue
    /\ \A p \in Policies : Has(data[p], last.key) /\ data[p][last.key] = last.value
    /\ \A t \in Lockers : ~inCall(t)

PurgeStep == last'.op = "purge" /\ pc' = pc /\ stats' = stats
EmptyWindow == migration.migrating /\ migration.migrationRealKeys = {}
C32_AddOrderAndFlag ==
    [][\A k \in Keys :
         (AddStep(k) /\ ~nilPolicy(activePolicy)) =>
            LET a == activePolicy
                A == DOMAIN data[a]
            IN  /\ \A p \in Policies \ {a} : Has(data'[p], k) /\ data'[p][k] = ZeroValue
                /\ Has(data'[a], k) /\ data'[a][k] = written'[k]
                /\ \A y \in (DOMAIN data'[a]) \ (A \cup {k}) :
                      /\ y \in migration.migrationRealKeys
                      /\ Has(data'[migration.migrateFrom], y)
                      /\ data'[a][y] = data'[migration.migrateFrom][y]
                /\ ~migration.migrating =>
                      (last'.ok <=> (k \notin A /\ Cardinality(A) >= size[a]))
                /\ last'.ok => Cardinality(DOMAIN data'[a]) = size[a]
                /\ \E vic \in ShadowVictims(data, size, a, k), vd \in Victims :
                      LET dr == addMigrate(shadowAdd(data, size, a, k, vic), size, a,
                                           migration, k, vd)
                      IN  /\ migration' = dr.migration
                          /\ last'.ok <=> (~Has(dr.data[a], k)
                                             /\ PolicyLen(dr.data[a]) >= size[a])
      ]_vars
\* an Add of a non-zero value has made a full shadow evict a key the active
\* policy still holds, and has returned false
C32_Witness ==
    /\ last.op = "add" /\ ~last.ok
    /\ written[last.key] # ZeroValue
    /\ \E p \in Policies \ {activePolicy} :
          /\ PolicyLen(data[p]) = size[p]
          /\ data[p][last.key] = ZeroValue
          /\ \E x \in DOMAIN written : x # last.key /\ ~Has(data[p], x) /\ Has(data[activePolicy], x)

\* ------------------------------------------------- the writers, statement by statement
\* Add, Remove and Purge taken one loop at a time: Lock, the loop over the
\* non-active policies, the call on the active policy with the deferred
\* Unlock. Two writers and a reader share the cache with the epoch driver.
Writers == {"w1", "w2"}
Readers == {"r1"}
WriterValue == [t \in Writers |-> IF t = "w1" THEN 1 ELSE 2]
WriterOps == {"add", "remove", "purge"}
EagerStrategies == {MigrationCold, MigrationWarm}

\* c.mu.Lock() at the head of Add, Remove or Purge
enter(t, op, k) ==
    /\ cache = "built"
    /\ pc[t].st = "idle" /\ ~onGuard(mu, t)
    /\ mu' = Lock(mu, t)
    /\ pc' = [pc EXCEPT ![t] = [st |-> op, key |-> k]]
    /\ UNCHANGED <<activePolicy, data, size, stats, settings, migration, written, last, life,
                   lfu, bandit, seen, epochID>>

\* Add, the loop: every non-active policy gets (key, zero value)
addShadows(t) ==
    /\ owns(mu, t) /\ pc[t].st = "add"
    /\ \E vic \in ShadowVictims(data, size, activePolicy, pc[t].key) :
          data' = shadowAdd(data, size, activePolicy, pc[t].key, vic)
    /\ written' = Put(written, pc[t].key, WriterValue[t])
    /\ pc' = [pc EXCEPT ![t].st = "addActive"]
    /\ UNCHANGED <<activePolicy, size, stats, settings, migration, last, life, aside>>

\* Add, the return statement and the deferred Unlock
addActive(t) ==
    /\ owns(mu, t) /\ pc[t].st = "addActive"
    /\ \E va \in EvictChoices(data[activePolicy], size[activePolicy], pc[t].key) :
          LET r == activeAdd(data, size, activePolicy, pc[t].key, WriterValue[t], va)
          IN  /\ data' = [data EXCEPT ![activePolicy] = r.data]
              /\ last' = Result("add", pc[t].key, ZeroValue, r.evicted, Undefined)
    /\ pc' = [pc EXCEPT ![t] = Idle]
    /\ mu' = Unlock(mu, t)
    /\ UNCHANGED <<activePolicy, size, stats, settings, migration, written, life,
                   lfu, bandit, seen, epochID>>

\* Remove, the loop over the non-active policies
removeShadows(t) ==
    /\ owns(mu, t) /\ pc[t].st = "remove"
    /\ data' = shadowRemove(data, activePolicy, pc[t].key)
    /\ written' = Drop(written, pc[t].key)
    /\ pc' = [pc EXCEPT ![t].st = "removeActive"]
    /\ UNCHANGED <<activePolicy, size, stats, settings, migration, last, life, aside>>

\* Remove, the return statement and the deferred Unlock
removeActive(t) ==
    /\ owns(mu, t) /\ pc[t].st = "removeActive"
    /\ LET r == PolicyRemove(data[activePolicy], pc[t].key)
       IN  /\ data' = [data EXCEPT ![activePolicy] = r.data]
           /\ last' = Result("remove", pc[t].key, ZeroValue, r.present, Undefined)
    /\ pc' = [pc EXCEPT ![t] = Idle]
    /\ mu' = Unlock(mu, t)
    /\ UNCHANGED <<activePolicy, size, stats, settings, migration, written, life,
                   lfu, bandit, seen, epochID>>

\* Purge, the first round of its loop
purgeFirst(t) ==
    /\ owns(mu, t) /\ pc[t].st = "purge"
    /\ data' = [data EXCEPT ![FirstPolicy] = PolicyPurge(@)]
    /\ written' = EmptyMap
    /\ pc' = [pc EXCEPT ![t].st = "purgeRest"]
    /\ UNCHANGED <<activePolicy, size, stats, settings, migration, last, life, aside>>

\* Purge, the other rounds and the deferred Unlock
purgeRest(t) ==
    /\ owns(mu, t) /\ pc[t].st = "purgeRest"
    /\ data' = purgeAll(data)
    /\ migration' = clearMigrationState
    /\ last' = Result("purge", NoKey, ZeroValue, FALSE, Undefined)
    /\ pc' = [pc EXCEPT ![t] = Idle]
    /\ mu' = Unlock(mu, t)
    /\ UNCHANGED <<activePolicy, size, stats, settings, written, life, lfu, bandit, seen, epochID>>

InitAtomic ==
    /\ Built
    /\ lfu = SpareLFU
    /\ Quiet
    /\ activePolicy = FirstPolicy
    /\ data = [p \in Policies |-> EmptyMap]
    /\ size = LifeCapacities
    /\ stats = [p \in Policies |-> NoStats]
    /\ settings \in [EvictPartialCapacityFilling : {TRUE}, MigrationStrategy : EagerStrategies]
    /\ migration = clearMigrationState
    /\ pc = [t \in Writers \cup Readers |-> Idle]
    /\ written = EmptyMap
    /\ last = Result("new", NoKey, ZeroValue, FALSE, Undefined)

NextAtomic ==
    \/ \E t \in Writers, op \in WriterOps, k \in OneKey : enter(t, op, k)
    \/ \E t \in Writers \cup {Driver} : grab(t)
    \/ \E t \in Writers : addShadows(t)
    \/ \E t \in Writers : addActive(t)
    \/ \E t \in Writers : removeShadows(t)
    \/ \E t \in Writers : removeActive(t)
    \/ \E t \in Writers : purgeFirst(t)
    \/ \E t \in Writers : purgeRest(t)
    \/ \E t \in Readers : callShared(t)
    \/ \E t \in Readers : sharedBody(t)
    \/ tickerFire /\ UNCHANGED aside
    \/ driverLock
    \/ \E newPolicy \in Policies : driverTick(newPolicy)

SpecAtomic == InitAtomic /\ [][NextAtomic]_vars

\* a writer is between the two loops of its call
MidCall(t) == pc[t].st \in {"addActive", "removeActive", "purgeRest"}

\* C33: Add, Remove and Purge are atomic with respect to each other, to the
\* readers and to the epoch switch: a writer between its shadow loop and its
\* active call holds the lock alone, and whenever no writer is there every
\* key of the active policy is in every shadow, no policy holds a key that
\* the last call to get the lock for it took out, the active policy holds
\* each key with the value of the last Add to get the lock for it, and right
\* after an Add every policy holds its key.
C33_WritersAreAtomic ==
    /\ \A t \in Writers : MidCall(t) => (mu.holdW = {t} /\ mu.holdR = {})
    /\ (\A t \in Writers : ~MidCall(t)) =>
          /\ \A p \in Shadows :
                /\ DOMAIN data[activePolicy] \subseteq DOMAIN data[p]
                /\ DOMAIN data[p] \subseteq DOMAIN written
          /\ \A k \in DOMAIN data[activePolicy] :
                Has(written, k) /\ data[activePolicy][k] = written[k]
          /\ last.op = "add" =>
                \A p \in Policies : Has(data[p], last.key)
\* the second writer's add has returned and the first is in Add again
C33_Witness ==
    /\ last.op = "add"
    /\ written[last.key] = WriterValue["w2"]
    /\ data[activePolicy][last.key] = WriterValue["w2"]
    /\ pc["w1"].st = "add" /\ "w1" \in mu.holdW \cup mu.waitW
    /\ \A t \in Writers : ~MidCall(t)

\* ------------------------------------------------- two callers in a gradual window
\* Two callers share the cache under the gradual strategy, one reading and
\* one writing. Each call body runs under the lock in one piece, but a Get
\* that missed has let go of the shared lock before it asks for the exclusive
\* one, so the calls of the other caller and the ticks of the driver come
\* between its two phases.
Getter == "p1"
Putter == "p2"
Promoters == {Getter, Putter}

InitPromote ==
    /\ Built
    /\ lfu = SpareLFU
    /\ Quiet
    /\ activePolicy = FirstPolicy
    /\ data = [p \in Policies |-> EmptyMap]
    /\ size = GradualSizes
    /\ stats = [p \in Policies |-> NoStats]
    /\ settings = [EvictPartialCapacityFilling |-> TRUE, MigrationStrategy |-> MigrationGradual]
    /\ migration = clearMigrationState
    /\ pc = [t \in Promoters |-> Idle]
    /\ written = EmptyMap
    /\ last = Result("new", NoKey, ZeroValue, FALSE, Undefined)

NextPromote ==
    \/ \E k \in Keys, v \in GuardValues : Add(Putter, k, v) /\ UNCHANGED aside
    \/ \E k \in Keys : Get(Getter, k) /\ UNCHANGED aside
    \/ GetPromote(Getter) /\ UNCHANGED aside
    \/ \E k \in Keys : Remove(Putter, k) /\ UNCHANGED aside
    \/ Purge(Putter) /\ UNCHANGED aside
    \/ \E newPolicy \in Policies : tryChangePolicy(newPolicy) /\ UNCHANGED <<life, aside>>

SpecPromote == InitPromote /\ [][NextPromote]_vars

\* C34: tryPromote looks at the migration flag and at the eligibility of k
\* again under the exclusive lock, so whatever Add, Remove, Purge or tick came
\* between the two phases of Get(k), the active policy holds no key without
\* the value of the last completed Add of that key, and a promotion leaves
\* the active policy as it is unless k is still eligible.
C34_PromotionRechecks ==
    /\ \A k \in DOMAIN data[activePolicy] :
          Has(written, k) /\ data[activePolicy][k] = written[k]
    /\ \A k \in migration.migrationRealKeys :
          /\ migration.migrating
          /\ Has(data[migration.migrateFrom], k) =>
                (Has(written, k) /\ data[migration.migrateFrom][k] = written[k])
\* a Get has come back from tryPromote with a miss after another caller's
\* Add of the same key: the active policy holds the new value, the source
\* the placeholder, and the window is still open
C34_Witness ==
    /\ last.op = "get" /\ ~last.ok
    /\ migration.migrating
    /\ Has(data[activePolicy], last.key)
    /\ data[activePolicy][last.key] # ZeroValue
    /\ Has(data[migration.migrateFrom], last.key)
    /\ data[migration.migrateFrom][last.key] = ZeroValue

\* ------------------------------------------------- the epoch counter
\* runAdaptiveSelect, the tick case statement by statement: tryChangePolicy
\* with its Lock and deferred Unlock, then c.epochID++ back in the loop. One
\* caller uses the cache meanwhile.
MaxEpoch == 2

\* the tick case, first statement: tryChangePolicy under the exclusive lock
epochTick(newPolicy) ==
    /\ owns(mu, Driver)
    /\ driver = "running" /\ epochTicker.C = 1
    /\ epochID < MaxEpoch
    /\ epochTicker' = [epochTicker EXCEPT !.C = 0]
    /\ tryChangePolicy(newPolicy)
    /\ driver' = "counting"
    /\ mu' = Unlock(mu, Driver)
    /\ UNCHANGED <<cache, err, ctx, closing, lfu, bandit, seen, epochID>>

\* the tick case, last statement: c.epochID++
epochCount ==
    /\ driver = "counting"
    /\ epochID' = epochID + 1
    /\ driver' = "running"
    /\ UNCHANGED <<activePolicy, data, size, stats, settings, migration, pc, written, last,
                   cache, err, ctx, epochTicker, closing, lfu, bandit, seen, mu>>

NextCount ==
    \/ \E t \in Guards : callShared(t)
    \/ \E t \in Guards : callExclusive(t)
    \/ \E t \in Lockers : grab(t)
    \/ \E t \in Guards : sharedBody(t)
    \/ \E t \in Guards : exclusiveBody(t)
    \/ tickerFire /\ UNCHANGED aside
    \/ driverLock
    \/ \E newPolicy \in Policies : epochTick(newPolicy)
    \/ epochCount

SpecCount == InitGuard /\ [][NextCount]_vars

\* C35: activePolicy, the migration state and epochID are written only by a
\* thread that holds c.mu exclusively: no step changes one of them while
\* the writers' side of the lock is not held or a reader is inside.
C35_WrittenUnderExclusiveGuard ==
    [][ (activePolicy' # activePolicy \/ migration' # migration \/ epochID' # epochID)
            => (mu.holdW # {} /\ mu.holdR = {})
      ]_vars

\* ------------------------------------------------- the driver after Close
\* The scheduler runs every goroutine that can run: the caller of Close goes
\* on from cancel() to epochTicker.Stop(), and the driver, back at its select
\* with only the Done case ready, takes it.
StopFairness ==
    /\ GuardFairness
    /\ WF_vars(driverExit)
    /\ \A c \in GuardClosers : WF_vars(CloseReturn(c) /\ UNCHANGED aside)

SpecStopFair == InitGuard /\ [][NextGuard]_vars /\ StopFairness

\* C36: once Close has cancelled the context the driver eventually stops the
\* ticker and leaves its loop, and it has not left its loop in any state
\* where the context is not cancelled.
C36_DriverStopsAfterClose ==
    /\ (ctx = "cancelled") ~> (driver = "exited" /\ ~epochTicker.running)
    /\ [](driver = "exited" => ctx = "cancelled")
\* the driver has left its loop and stopped the ticker while the caller of
\* Close is still between cancel() and its own Stop()
C36_Witness ==
    /\ driver = "exited" /\ ~epochTicker.running
    /\ ctx = "cancelled" /\ closing # {}

\* C37: no lookup is lost when Gets run together under the shared lock: each
\* Get that returns has raised Hits + Misses of every policy by exactly one,
\* so that after n Gets have returned every policy counts n lookups more.
C37_NoLookupLost ==
    [][ \A t \in Racers :
          GetStore(t) =>
             \A p \in Policies : Lookups(stats', p) = Lookups(stats, p) + 1
      ]_vars

\* C38: while a gradual migration is on, no eligible key is in the active
\* policy, so what a promotion or the drain inserts is a key the active
\* policy does not hold and nothing written there since the switch is
\* overwritten.
C38_EligibleNotInActive ==
    migration.migrating =>
        migration.migrationRealKeys \cap DOMAIN data[activePolicy] = {}
\* a window with a key still eligible after the active policy has been given
\* one key by an Add and another one from the source
C38_Witness ==
    /\ migration.migrating /\ migration.migrationRealKeys # {}
    /\ \E k \in DOMAIN data[activePolicy] :
          /\ k # last.key
          /\ Has(data[migration.migrateFrom], k)
          /\ data[activePolicy][k] = data[migration.migrateFrom][k]
    /\ last.op = "add" /\ Has(data[activePolicy], last.key)

\* C39: while a gradual migration is on, an eligible key that the source
\* still holds has there the value of the caller's last Add, not the
\* placeholder of a shadow add, so what is promoted or drained is a value a
\* caller stored.
C39_EligibleValuesAreReal ==
    migration.migrating =>
        \A k \in migration.migrationRealKeys \cap DOMAIN data[migration.migrateFrom] :
            /\ Has(written, k)
            /\ data[migration.migrateFrom][k] = written[k]
            /\ written[k] # ZeroValue => data[migration.migrateFrom][k] # ZeroValue
\* a window in which the source holds an eligible key with a non-zero value
\* next to the placeholder that an Add since the switch has left there
C39_Witness ==
    /\ migration.migrating
    /\ \E k \in migration.migrationRealKeys :
          /\ Has(data[migration.migrateFrom], k)
          /\ data[migration.migrateFrom][k] # ZeroValue
    /\ \E x \in DOMAIN data[migration.migrateFrom] \ migration.migrationRealKeys :
          /\ data[migration.migrateFrom][x] = ZeroValue
          /\ Has(written, x) /\ written[x] # ZeroValue

\* C40: while a gradual migration is on, every eligible key is still in the
\* pending list, which holds no key twice, so popping from the tail comes to
\* an eligible key whenever there is one and stops when the list is empty; an
\* empty list goes with an empty eligible set, and outside a window both are
\* empty.
C40_EligibleArePending ==
    LET keys == migration.migrationKeys
        real == migration.migrationRealKeys
    IN  /\ real \subseteq Range(keys)
        /\ \A i, j \in DOMAIN keys : keys[i] = keys[j] => i = j
        /\ keys = <<>> => real = {}
        /\ ~migration.migrating => keys = <<>>
\* an Add has drained a key from the source and left the window open: the
\* list holds exactly the eligible keys that are left
C40_Witness ==
    /\ migration.migrating /\ last.op = "add"
    /\ migration.migrationRealKeys # {}
    /\ Len(migration.migrationKeys) = Cardinality(migration.migrationRealKeys)
    /\ \E k \in DOMAIN data[activePolicy] :
          k # last.key /\ data[activePolicy][k] = data[migration.migrateFrom][k]

====
